---- MODULE Spec2Model ----
(***************************************************************************)
(* A model of the photo catalog of a_vision: PhotoDatabase (database.py),  *)
(* FaceProcessor (face_processor.py) and YOLOProcessor                     *)
(* (yolo_processor.py).  The committed content of the MySQL catalog is the *)
(* variable db; every handler runs on a working copy that is committed or  *)
(* rolled back as the handler's try/except does.                           *)
(***************************************************************************)
EXTENDS Integers, Sequences, FiniteSets, TLC

VARIABLES db, clock, last, batch, firstId, known, matcher, probe

vars == <<db, clock, last, batch, firstId, known, matcher, probe>>

\* The known_faces table, the Face Matcher's gallery, and the input of the
\* function under study.
galleryVars == <<known, matcher, probe>>

-----------------------------------------------------------------------------
(* Bounds of the model.                                                    *)

\* Longest detection list the object detector returns for one image.
MaxDet == 2
\* Longest face list the face locator returns for one image.
MaxFaces == 1
\* Number of calls of the catalog writers in one behaviour.
MaxCalls == 3
\* Number of runs of the single-image command in one behaviour.
MaxRuns == 2

-----------------------------------------------------------------------------
(* Values.                                                                 *)

\* SQL NULL of photos.processed_at (a TIMESTAMP NULL column).
NullTime == 0

\* Python None of recognized_name.
NoName == ""

\* The default confidence_threshold, 0.25, in units of 0.00001.
ConfidenceThreshold == 25000

\* File paths are strings: sequences of character codes.
PathA == <<97, 46, 106, 112, 103>>      \* "a.jpg"
PathB == <<98, 46, 74, 80, 71>>         \* "b.JPG"
PathC == <<99, 46, 112, 110, 103>>      \* "c.png"
PathD == <<100, 46, 116, 120, 116>>     \* "d.txt"

ClassNames == {"person", "dog"}
\* Confidences the detector reports (Python floats), in units of 0.00001.
Confidences == {10004, 90005}

\* model.names: class_id -> class_name (inverted)
ClassId(name) == IF name = "person" THEN 0 ELSE 16

Detections ==
    { [class_name |-> n, class_id |-> ClassId(n), confidence |-> c] :
        n \in ClassNames, c \in Confidences }

SeqsUpTo(S, n) == UNION { [1..k -> S] : k \in 0..n }

DetLists == SeqsUpTo(Detections, MaxDet)

\* What the detector returns: lists of detections whose confidence reaches
\* the threshold.
DetectorLists ==
    SeqsUpTo({ d \in Detections : d.confidence >= ConfidenceThreshold }, MaxDet)

FaceDets ==
    { [face_encoding |-> e, recognized_name |-> n] :
        e \in {"enc1"}, n \in {NoName, "alice"} }

FaceLists == SeqsUpTo(FaceDets, MaxFaces)

\* What extract_exif_data returns: the empty dict, or a dict of fields.
ExifDicts == {"", "exif1"}

\* File size and image dimensions read from the file.
FileMetas == {"100x100", "200x200"}

ModelNames == {"yolov8n.pt"}

-----------------------------------------------------------------------------
(* Arithmetic helpers.                                                     *)

\* A value of num / den units of 0.00001 stored in a DECIMAL(5,4) column:
\* rounded, half up, to units of 0.0001.
ToDecimal4(num, den) == (2 * num + 10 * den) \div (20 * den)

RECURSIVE SumSeq(_)
SumSeq(s) == IF s = <<>> THEN 0 ELSE Head(s) + SumSeq(Tail(s))

RECURSIVE MaxSeq(_)
MaxSeq(s) ==
    IF Len(s) = 1 THEN Head(s)
    ELSE LET m == MaxSeq(Tail(s)) IN IF Head(s) >= m THEN Head(s) ELSE m

-----------------------------------------------------------------------------
(* The catalog: tables of database.py create_tables.                       *)
(* photos is a set of rows; the child tables are keyed by photo_id and     *)
(* hold the rows of that photo in insertion order.                         *)

EmptyTable == [k \in {} |-> <<>>]

EmptyCatalog ==
    [ photos       |-> {},
      nextId       |-> 1,
      exif_data    |-> EmptyTable,
      object_detections |-> EmptyTable,
      object_summary    |-> EmptyTable,
      face_detections   |-> EmptyTable,
      face_summary      |-> EmptyTable ]

\* SELECT * FROM <table> WHERE photo_id = pid
Rows(table, pid) == IF pid \in DOMAIN table THEN table[pid] ELSE <<>>

DeleteRowsOfAll(table, pid) == [k \in {} |-> <<>>]

\* DELETE FROM <table> WHERE photo_id = pid
DeleteRows(table, pid) == [k \in DOMAIN table \ {pid} |-> table[k]]

\* INSERT INTO <table> the rows, for photo pid, after the rows it has
InsertRows(table, pid, rows) ==
    IF rows = <<>> THEN table
    ELSE [k \in DOMAIN table \cup {pid} |->
            IF k = pid THEN Rows(table, pid) \o rows ELSE table[k]]

PhotoIds(cat) == { r.id : r \in cat.photos }

\* SELECT ... FROM photos WHERE file_path = path
PhotosByPath(cat, path) == { r \in cat.photos : r.file_path = path }

\* SELECT ... FROM photos WHERE id = pid
PhotosById(cat, pid) == { r \in cat.photos : r.id = pid }

\* conn.rollback(): the working copy is dropped.  AUTO_INCREMENT counters
\* are not transactional.
RollbackNoop(committed, work) == work

Rollback(committed, work) == [committed EXCEPT !.nextId = work.nextId]

-----------------------------------------------------------------------------
(* PhotoDatabase.add_photo                                                 *)

\* Where add_photo can fail: reading the file, the UPDATE/INSERT of photos,
\* the INSERT of exif_data (after its DELETE), the commit.
NoFail == [at |-> "none", k |-> 0]

AddPhotoFails(exif) ==
    {NoFail} \cup
    { [at |-> a, k |-> 0] : a \in {"io", "upsert", "commit"} } \cup
    (IF exif # "" THEN {[at |-> "exif_insert", k |-> 0]} ELSE {})

\* UPDATE photos SET file_name, file_size, width, height, format,
\* yolo_model_used WHERE file_path = path
UpdatePhotoRecreate(cat, path, meta, model, now) ==
    [cat EXCEPT
        !.photos = (cat.photos \ PhotosByPath(cat, path)) \cup
            { [id |-> cat.nextId, file_path |-> path, meta |-> meta,
               created_at |-> now, processed_at |-> NullTime,
               model |-> model] },
        !.nextId = cat.nextId + 1]

UpdatePhotoResetsProcessed(cat, path, meta, model, now) ==
    [cat EXCEPT
        !.photos = { IF r.file_path = path
                       THEN [r EXCEPT !.meta = meta, !.model = model,
                                      !.processed_at = NullTime]
                       ELSE r : r \in cat.photos }]

UpdatePhoto(cat, path, meta, model, now) ==
    [cat EXCEPT
        !.photos = { IF r.file_path = path
                       THEN [r EXCEPT !.meta = meta, !.model = model]
                       ELSE r : r \in cat.photos }]

\* INSERT INTO photos (file_path, file_name, ...): created_at defaults to
\* CURRENT_TIMESTAMP, processed_at to NULL, id to the AUTO_INCREMENT value.
InsertPhoto(cat, path, meta, model, now) ==
    [cat EXCEPT
        !.photos = cat.photos \cup
            { [id |-> cat.nextId, file_path |-> path, meta |-> meta,
               created_at |-> now, processed_at |-> NullTime,
               model |-> model] },
        !.nextId = cat.nextId + 1]

\* The id the SELECT of add_photo finds (fetchone), 0 for None.
ExistingId(cat, path) ==
    IF PhotosByPath(cat, path) = {} THEN 0
    ELSE (CHOOSE r \in PhotosByPath(cat, path) : TRUE).id

\* The result of a handler: the committed catalog after it, whether it
\* raised, and the value it returned (0 when it raised or returns None).
Outcome(cat, raised, value) ==
    [cat |-> cat, raised |-> raised, value |-> value]

AddPhoto(cat, path, meta, model, exif, fail, now) ==
    LET existing == ExistingId(cat, path)
        upserted ==
            IF existing # 0 THEN UpdatePhoto(cat, path, meta, model, now)
            ELSE InsertPhoto(cat, path, meta, model, now)
        photo_id == IF existing # 0 THEN existing ELSE cat.nextId
        exifDeleted ==
            [upserted EXCEPT
                !.exif_data = DeleteRows(upserted.exif_data, photo_id)]
        exifDone ==
            IF exif # ""
            THEN [exifDeleted EXCEPT
                    !.exif_data = InsertRows(exifDeleted.exif_data,
                                             photo_id, <<exif>>)]
            ELSE upserted
    IN  CASE fail.at = "io"          -> Outcome(Rollback(cat, cat), TRUE, 0)
          [] fail.at = "upsert"      -> Outcome(Rollback(cat, cat), TRUE, 0)
          [] fail.at = "exif_insert" -> Outcome(Rollback(cat, exifDeleted), TRUE, 0)
          [] fail.at = "commit"      -> Outcome(Rollback(cat, exifDone), TRUE, 0)
          [] OTHER                -> Outcome(exifDone, FALSE, photo_id)

-----------------------------------------------------------------------------
(* PhotoDatabase.add_object_detections                                     *)

\* The keys of class_counts, in the order the dict receives them.
RECURSIVE ClassOrder(_)
ClassOrder(dets) ==
    IF dets = <<>> THEN <<>>
    ELSE LET d == dets[Len(dets)]
             before == ClassOrder(SubSeq(dets, 1, Len(dets) - 1))
         IN  IF \E i \in 1..Len(before) : before[i] = d.class_name
             THEN before
             ELSE Append(before, d.class_name)

\* class_confidences[class_name]
ConfidencesOf(dets, name) ==
    LET own == SelectSeq(dets, LAMBDA d : d.class_name = name)
    IN  [i \in 1..Len(own) |-> own[i].confidence]

\* next(d['class_id'] for d in detections if d['class_name'] == class_name)
FirstClassId(dets, name) ==
    dets[CHOOSE i \in 1..Len(dets) :
            /\ dets[i].class_name = name
            /\ \A j \in 1..(i - 1) : dets[j].class_name # name].class_id

\* The object_detections row of one detection.
EventRow(d) ==
    [class_name |-> d.class_name, class_id |-> d.class_id,
     confidence |-> ToDecimal4(d.confidence, 1)]

\* The object_detections rows of a detection list.
EventRows(dets) == [i \in 1..Len(dets) |-> EventRow(dets[i])]

\* The object_summary row of one class: avg_confidence is
\* sum(confidences) / len(confidences), max_confidence max(confidences).
SummaryRowOverAll(dets, name) ==
    LET confs == ConfidencesOf(dets, name)
    IN  [class_name     |-> name,
         class_id       |-> FirstClassId(dets, name),
         total_count    |-> Len(confs),
         avg_confidence |-> ToDecimal4(SumSeq(confs), Len(dets)),
         max_confidence |-> ToDecimal4(MaxSeq(confs), 1)]

SummaryRow(dets, name) ==
    LET confs == ConfidencesOf(dets, name)
    IN  [class_name     |-> name,
         class_id       |-> FirstClassId(dets, name),
         total_count    |-> Len(confs),
         avg_confidence |-> ToDecimal4(SumSeq(confs), Len(confs)),
         max_confidence |-> ToDecimal4(MaxSeq(confs), 1)]

\* The rows the summary loop inserts, in its order.
Aggregate(dets) ==
    LET order == ClassOrder(dets)
    IN  [i \in 1..Len(order) |-> SummaryRow(dets, order[i])]

\* Where add_object_detections can fail: the DELETEs, the k-th INSERT of a
\* detection, the k-th INSERT of a summary row, the UPDATE of processed_at,
\* the commit.
ObjectFails(dets) ==
    {NoFail} \cup
    { [at |-> a, k |-> 0] : a \in {"delete", "update", "commit"} } \cup
    { [at |-> "event", k |-> k] : k \in 1..Len(dets) } \cup
    { [at |-> "summary", k |-> k] : k \in 1..Len(ClassOrder(dets)) }

\* The working copy after the DELETEs, the first nEv detection INSERTs, the
\* first nSum summary INSERTs and, with upd, the UPDATE of processed_at.
ObjectWork(cat, pid, dets, nEv, nSum, upd, now) ==
    [cat EXCEPT
        !.object_detections =
            InsertRows(DeleteRows(cat.object_detections, pid), pid,
                       SubSeq(EventRows(dets), 1, nEv)),
        !.object_summary =
            InsertRows(DeleteRows(cat.object_summary, pid), pid,
                       SubSeq(Aggregate(dets), 1, nSum)),
        !.photos =
            { IF upd /\ r.id = pid THEN [r EXCEPT !.processed_at = now]
              ELSE r : r \in cat.photos }]

AddObjectDetections(cat, pid, dets, fail, now) ==
    LET nE == Len(dets)
        nS == Len(ClassOrder(dets))
        \* FOREIGN KEY (photo_id) REFERENCES photos(id)
        fk == pid \notin PhotoIds(cat) /\ dets # <<>>
        f  == IF fail.at # "delete" /\ fk
              THEN [at |-> "event", k |-> 1] ELSE fail
    IN  CASE f.at = "delete" ->
               Outcome(Rollback(cat, cat), TRUE, 0)
          [] f.at = "event" ->
               Outcome(Rollback(cat,
                   ObjectWork(cat, pid, dets, f.k - 1, 0, FALSE, now)), TRUE, 0)
          [] f.at = "summary" ->
               Outcome(Rollback(cat,
                   ObjectWork(cat, pid, dets, nE, f.k - 1, FALSE, now)), TRUE, 0)
          [] f.at = "update" ->
               Outcome(Rollback(cat,
                   ObjectWork(cat, pid, dets, nE, nS, FALSE, now)), TRUE, 0)
          [] f.at = "commit" ->
               Outcome(Rollback(cat,
                   ObjectWork(cat, pid, dets, nE, nS, TRUE, now)), TRUE, 0)
          [] OTHER ->
               Outcome(ObjectWork(cat, pid, dets, nE, nS, TRUE, now), FALSE, 0)

-----------------------------------------------------------------------------
(* PhotoDatabase.add_face_detections                                       *)

\* sum(1 for d in face_detections if d.get('recognized_name'))
RecognizedCount(faces) ==
    Len(SelectSeq(faces, LAMBDA d : d.recognized_name # NoName))

FaceSummaryRowNoSubtraction(faces) ==
    [total_faces        |-> Len(faces),
     recognized_faces   |-> RecognizedCount(faces),
     unrecognized_faces |-> Len(faces)]

FaceSummaryRow(faces) ==
    [total_faces        |-> Len(faces),
     recognized_faces   |-> RecognizedCount(faces),
     unrecognized_faces |-> Len(faces) - RecognizedCount(faces)]

\* Where add_face_detections can fail: the DELETEs, the k-th INSERT of a
\* face, the INSERT of the summary row, the commit.
FaceFails(faces) ==
    {NoFail} \cup
    { [at |-> a, k |-> 0] : a \in {"delete", "summary", "commit"} } \cup
    { [at |-> "face", k |-> k] : k \in 1..Len(faces) }

FaceWork(cat, pid, faces, nF, withSummary) ==
    [cat EXCEPT
        !.face_detections =
            InsertRows(DeleteRows(cat.face_detections, pid), pid,
                       SubSeq(faces, 1, nF)),
        !.face_summary =
            InsertRows(DeleteRows(cat.face_summary, pid), pid,
                       IF withSummary THEN <<FaceSummaryRow(faces)>>
                       ELSE <<>>)]

AddFaceDetections(cat, pid, faces, fail) ==
    LET nF == Len(faces)
        \* FOREIGN KEY (photo_id) REFERENCES photos(id)
        fk == pid \notin PhotoIds(cat)
        f  == IF fail.at # "delete" /\ fk
              THEN (IF faces # <<>> THEN [at |-> "face", k |-> 1]
                    ELSE [at |-> "summary", k |-> 0])
              ELSE fail
    IN  CASE f.at = "delete" ->
               Outcome(Rollback(cat, cat), TRUE, 0)
          [] f.at = "face" ->
               Outcome(Rollback(cat,
                   FaceWork(cat, pid, faces, f.k - 1, FALSE)), TRUE, 0)
          [] f.at = "summary" ->
               Outcome(Rollback(cat,
                   FaceWork(cat, pid, faces, nF, FALSE)), TRUE, 0)
          [] f.at = "commit" ->
               Outcome(Rollback(cat,
                   FaceWork(cat, pid, faces, nF, TRUE)), TRUE, 0)
          [] OTHER ->
               Outcome(FaceWork(cat, pid, faces, nF, TRUE), FALSE, 0)

-----------------------------------------------------------------------------
(* FaceProcessor.detect_faces_in_image: the faces the locator and encoder  *)
(* return, each with its recognition; any exception inside is logged and   *)
(* the empty list is returned.                                             *)

DetectFacesInImage(faces, encoderRaises) ==
    IF encoderRaises THEN <<>> ELSE faces

-----------------------------------------------------------------------------
(* YOLOProcessor.process_single_image                                      *)

\* What the file at a path holds: its size and dimensions, its EXIF dict.
FileMetaOf(path) == IF path = PathA THEN "100x100" ELSE "200x200"
ExifOf(path) == IF path = PathA THEN "exif1" ELSE ""

\* Where one run can fail: in add_photo, in the detector, in
\* add_object_detections, in the encoder, in add_face_detections.
StepFail(step, fail) == [step |-> step, at |-> fail.at, k |-> fail.k]

NoStepFail == StepFail("none", NoFail)

\* Of each catalog handler, the failure before its first write and the
\* failure at its commit.
ProcessFails(path, dets, faces) ==
    {NoStepFail, StepFail("detector", NoFail), StepFail("encoder", NoFail)}
    \cup { StepFail("add_photo", f) :
             f \in { g \in AddPhotoFails(ExifOf(path)) :
                       g.at \in {"io", "commit"} } }
    \cup { StepFail("objects", f) :
             f \in { g \in ObjectFails(dets) :
                       dets # <<>> /\ g.at \in {"delete", "commit"} } }
    \cup { StepFail("faces", f) :
             f \in { g \in FaceFails(faces) :
                       faces # <<>> /\ g.at \in {"delete", "commit"} } }

FailOf(sf, step) ==
    IF sf.step = step THEN [at |-> sf.at, k |-> sf.k] ELSE NoFail

\* The outcome of a run: the committed catalog, whether the run raised, the
\* result dict it returned, and the collaborators it invoked.
Run(cat, raised, photo_id, dets, faces, calls) ==
    [cat |-> cat, raised |-> raised, photo_id |-> photo_id,
     detections_count |-> Len(dets), face_detections_count |-> Len(faces),
     calls |-> calls]

StoreDetectionsAlways(cat, photo_id, dets, fail, now) ==
    AddObjectDetections(cat, photo_id, dets, fail, now)

\* if detections: self.db.add_object_detections(photo_id, detections)
StoreDetections(cat, photo_id, dets, fail, now) ==
    IF dets # <<>> THEN AddObjectDetections(cat, photo_id, dets, fail, now)
    ELSE Outcome(cat, FALSE, 0)

\* if face_detections: self.db.add_face_detections(photo_id, face_detections)
StoreFaces(cat, photo_id, faces, fail) ==
    IF faces # <<>> THEN AddFaceDetections(cat, photo_id, faces, fail)
    ELSE Outcome(cat, FALSE, 0)

\* The collaborators a run has invoked when it leaves each step.
CallsUpTo(step, dets, face_detections) ==
    {"add_photo"}
    \cup (IF step = "add_photo" THEN {} ELSE {"detector"})
    \cup (IF step \in {"objects", "faces"} /\ dets # <<>>
          THEN {"add_object_detections"} ELSE {})
    \cup (IF step = "faces" THEN {"encoder"} ELSE {})
    \cup (IF step = "faces" /\ face_detections # <<>>
          THEN {"add_face_detections"} ELSE {})

\* The run from detect_faces_in_image on: r2 is the outcome of storing the
\* detections.
DetectAndStoreFaces(r2, photo_id, dets, face_detections, r3) ==
    IF r3.raised
    THEN Run(r3.cat, TRUE, 0, <<>>, <<>>,
             CallsUpTo("faces", dets, face_detections))
    ELSE Run(r3.cat, FALSE, photo_id, dets, face_detections,
             CallsUpTo("faces", dets, face_detections))

\* The run from the detector on: r1 is the outcome of add_photo.
DetectAndStore(r1, dets, faces, sf, r2) ==
    IF sf.step = "detector"
    THEN Run(r1.cat, TRUE, 0, <<>>, <<>>, CallsUpTo("detector", dets, <<>>))
    ELSE IF r2.raised
    THEN Run(r2.cat, TRUE, 0, <<>>, <<>>, CallsUpTo("objects", dets, <<>>))
    ELSE DetectAndStoreFaces(r2, r1.value, dets,
             DetectFacesInImage(faces, sf.step = "encoder"),
             StoreFaces(r2.cat, r1.value,
                        DetectFacesInImage(faces, sf.step = "encoder"),
                        FailOf(sf, "faces")))

\* The run after add_photo.
AfterAddPhoto(r1, dets, faces, sf, now) ==
    IF r1.raised
    THEN Run(r1.cat, TRUE, 0, <<>>, <<>>, CallsUpTo("add_photo", dets, <<>>))
    ELSE DetectAndStore(r1, dets, faces, sf,
             StoreDetections(r1.cat, r1.value, dets,
                             FailOf(sf, "objects"), now))

ProcessSingleImage(cat, path, model, dets, faces, sf, now) ==
    AfterAddPhoto(AddPhoto(cat, path, FileMetaOf(path), model, ExifOf(path),
                           FailOf(sf, "add_photo"), now),
                  dets, faces, sf, now)

-----------------------------------------------------------------------------
(* YOLOProcessor.process_directory: the enumeration of the image files     *)

Upper(c) == IF c >= 97 /\ c <= 122 THEN c - 32 ELSE c
Lower(c) == IF c >= 65 /\ c <= 90 THEN c + 32 ELSE c

\* str.upper()
UpperStr(s) == [i \in 1..Len(s) |-> Upper(s[i])]
LowerStr(s) == [i \in 1..Len(s) |-> Lower(s[i])]

ExtJpg == <<46, 106, 112, 103>>         \* ".jpg"
ExtJpeg == <<46, 106, 112, 101, 103>>   \* ".jpeg"
ExtPng == <<46, 112, 110, 103>>         \* ".png"
ExtBmp == <<46, 98, 109, 112>>          \* ".bmp"
ExtTiff == <<46, 116, 105, 102, 102>>   \* ".tiff"

\* file_extensions when the caller passes None
DefaultExtensions == <<ExtJpg, ExtJpeg, ExtPng, ExtBmp, ExtTiff>>

\* The files of the directory tree, and the extension lists a caller passes.
FileUniverse == {PathA, PathB, PathC, PathD}
ExtensionLists ==
    { DefaultExtensions, <<UpperStr(ExtJpg)>>, <<ExtPng, ExtJpg>> }

\* Python's order of strings: by code point, a proper prefix first.
RECURSIVE StrLess(_, _)
StrLess(a, b) ==
    IF b = <<>> THEN FALSE
    ELSE IF a = <<>> THEN TRUE
    ELSE IF Head(a) # Head(b) THEN Head(a) < Head(b)
    ELSE StrLess(Tail(a), Tail(b))

EndsWith(s, suffix) ==
    /\ Len(suffix) <= Len(s)
    /\ SubSeq(s, Len(s) - Len(suffix) + 1, Len(s)) = suffix

\* fnmatch of "*<ext>" on a file name: os.path.normcase folds the case on a
\* platform whose file names are case-insensitive.
Matches(path, ext, caseFold) ==
    IF caseFold THEN EndsWith(LowerStr(path), LowerStr(ext))
    ELSE EndsWith(path, ext)

Range(s) == { s[i] : i \in 1..Len(s) }

\* The orders in which a set can be listed.
Listings(S) ==
    { l \in [1..Cardinality(S) -> S] : Range(l) = S }

\* glob.glob(pattern, recursive=True): the matching files, in directory order
Glob(fs, ext, caseFold) ==
    LET found == { f \in fs : Matches(f, ext, caseFold) }
    IN  CHOOSE l \in Listings(found) : TRUE

\* image_files after the two loops over file_extensions and [ext, ext.upper()]
RECURSIVE FoundFiles(_, _, _)
FoundFiles(fs, exts, caseFold) ==
    IF exts = <<>> THEN <<>>
    ELSE Glob(fs, Head(exts), caseFold)
         \o Glob(fs, UpperStr(Head(exts)), caseFold)
         \o FoundFiles(fs, Tail(exts), caseFold)

\* list.sort() of strings
RECURSIVE Insert(_, _)
Insert(x, sorted) ==
    IF sorted = <<>> THEN <<x>>
    ELSE IF StrLess(Head(sorted), x)
         THEN <<Head(sorted)>> \o Insert(x, Tail(sorted))
         ELSE <<x>> \o sorted

RECURSIVE Sort(_)
Sort(l) == IF l = <<>> THEN <<>> ELSE Insert(Head(l), Sort(Tail(l)))

\* image_files = list(set(image_files)); image_files.sort(), where listing
\* is the order in which list() walks the set
ImageFilesNoDedup(found, listing) == Sort(found)

ImageFiles(found, listing) == Sort(listing)

-----------------------------------------------------------------------------
(* YOLOProcessor.process_directory: one pass of the loop over image_files  *)

\* _is_image_already_processed: a failing query is logged and answers False
IsImageAlreadyProcessedInverted(cat, path, queryRaises) ==
    IF queryRaises THEN FALSE
    ELSE /\ PhotosByPath(cat, path) # {}
         /\ (CHOOSE r \in PhotosByPath(cat, path) : TRUE).processed_at = NullTime

IsImageAlreadyProcessed(cat, path, queryRaises) ==
    IF queryRaises THEN FALSE
    ELSE /\ PhotosByPath(cat, path) # {}
         /\ (CHOOSE r \in PhotosByPath(cat, path) : TRUE).processed_at # NullTime

FileResult(path, status, count, error) ==
    [file_path |-> path, status |-> status, detections_count |-> count,
     error |-> error]

\* except Exception as e: results.append({... 'status': 'error' ...})
OnErrorReraise(results, path, error) ==
    [results |-> results, pc |-> "raised"]

OnError(results, path, error) ==
    [results |-> Append(results, FileResult(path, "error", 0, error)),
     pc |-> "running"]

\* The message str(e) of the exception a failing run raises.
ErrorOf(sf) == IF sf.step = "none" THEN "" ELSE sf.step

\* One pass of the loop: the catalog, the results and the state of the
\* call after it, and the collaborators it invoked.
\* The result of a pass that ran process_single_image.
AfterRun(results, path, sf, run) ==
    IF run.raised
    THEN [cat |-> run.cat, pc |-> OnError(results, path, ErrorOf(sf)).pc,
          calls |-> run.calls, raised |-> TRUE,
          results |-> OnError(results, path, ErrorOf(sf)).results]
    ELSE [cat |-> run.cat, pc |-> "running", calls |-> run.calls,
          raised |-> FALSE,
          results |-> Append(results,
              FileResult(path, "processed", run.detections_count, ""))]

LoopPass(cat, results, path, force, queryRaises, model, dets, faces, sf, now) ==
    IF ~force /\ IsImageAlreadyProcessed(cat, path, queryRaises)
    THEN [cat |-> cat, pc |-> "running", calls |-> {}, raised |-> FALSE,
          results |-> Append(results, FileResult(path, "skipped", 0, ""))]
    ELSE AfterRun(results, path, sf,
             ProcessSingleImage(cat, path, model, dets, faces, sf, now))

-----------------------------------------------------------------------------
(* State machine.                                                          *)

\* What the last step was: the operation, its arguments, how it ended.
Last(op, path, pid, raised, value, dets, faces, sf, calls, queryRaised) ==
    [op |-> op, path |-> path, pid |-> pid, raised |-> raised,
     value |-> value, dets |-> dets, faces |-> faces, fail |-> sf,
     calls |-> calls, queryRaised |-> queryRaised]

\* The directory command before it starts.  caseFold tells whether the
\* platform matches file names case-insensitively.
IdleBatch(caseFold) ==
    [pc |-> "idle", files |-> <<>>, idx |-> 1, force |-> FALSE,
     results |-> <<>>, found |-> <<>>, caseFold |-> caseFold,
     file_extensions |-> <<>>]

\* The known_faces table: its rows and the next AUTO_INCREMENT id.
NoKnownFaces == [rows |-> {}, nextId |-> 1]

\* FaceProcessor.__init__(tolerance=0.6), in tenths.
DefaultTolerance == 6

\* FaceProcessor.__init__: no known encodings, no known names.
EmptyMatcher ==
    [known_face_encodings |-> <<>>, known_face_names |-> <<>>,
     tolerance |-> DefaultTolerance]

NoProbe == [kind |-> "none"]

Init ==
    /\ db = EmptyCatalog
    /\ clock = 1
    /\ last = Last("init", <<>>, 0, FALSE, 0, <<>>, <<>>, NoStepFail, {}, FALSE)
    /\ batch = IdleBatch(FALSE)
    /\ firstId = EmptyTable
    /\ known = NoKnownFaces
    /\ matcher = EmptyMatcher
    /\ probe = NoProbe

\* The id each path received when its photo was first committed.
NoteFirstIds(cat) ==
    [p \in DOMAIN firstId \cup { r.file_path : r \in cat.photos } |->
        IF p \in DOMAIN firstId THEN firstId[p]
        ELSE (CHOOSE r \in PhotosByPath(cat, p) : TRUE).id]

CatalogPaths == {PathA, PathB}

\* A caller of the catalog calls add_photo.
CallAddPhoto ==
    /\ clock <= MaxCalls
    /\ \E path \in CatalogPaths, meta \in FileMetas, exif \in ExifDicts,
          model \in ModelNames :
         \E fail \in AddPhotoFails(exif) :
            LET r == AddPhoto(db, path, meta, model, exif, fail, clock)
            IN  /\ db' = r.cat
                /\ last' = [exif |-> exif] @@
                            Last("add_photo", path, 0, r.raised, r.value,
                                 <<>>, <<>>, StepFail("add_photo", fail), {},
                                 FALSE)
                /\ firstId' = NoteFirstIds(r.cat)
    /\ clock' = clock + 1
    /\ UNCHANGED <<batch, galleryVars>>

\* A caller of the catalog calls add_object_detections, on the id of a
\* photo or on an id that no photo has.
CallAddObjectDetections ==
    /\ clock <= MaxCalls
    /\ \E pid \in PhotoIds(db) \cup {db.nextId}, dets \in DetLists :
         \E fail \in ObjectFails(dets) :
            LET r == AddObjectDetections(db, pid, dets, fail, clock)
            IN  /\ db' = r.cat
                /\ last' = Last("add_object_detections", <<>>, pid, r.raised,
                                0, dets, <<>>, StepFail("objects", fail), {},
                                FALSE)
    /\ clock' = clock + 1
    /\ UNCHANGED <<batch, firstId, galleryVars>>

\* A caller of the catalog calls add_face_detections.
CallAddFaceDetections ==
    /\ clock <= MaxCalls
    /\ \E pid \in PhotoIds(db) \cup {db.nextId}, faces \in FaceLists :
         \E fail \in FaceFails(faces) :
            LET r == AddFaceDetections(db, pid, faces, fail)
            IN  /\ db' = r.cat
                /\ last' = Last("add_face_detections", <<>>, pid, r.raised,
                                0, <<>>, faces, StepFail("faces", fail), {},
                                FALSE)
    /\ clock' = clock + 1
    /\ UNCHANGED <<batch, firstId, galleryVars>>

NextCatalog ==
    \/ CallAddPhoto
    \/ CallAddObjectDetections
    \/ CallAddFaceDetections

\* The catalog under any sequence of calls of its three writers.
SpecCatalog == Init /\ [][NextCatalog]_vars

ImagePaths == {PathA, PathB}

\* The single-image command: process_single_image on one path.
RunProcessSingleImage ==
    /\ batch.pc # "running"
    /\ clock <= MaxRuns
    /\ \E path \in ImagePaths, model \in ModelNames,
          dets \in DetectorLists, faces \in FaceLists :
         \E sf \in ProcessFails(path, dets, faces) :
            LET r == ProcessSingleImage(db, path, model, dets, faces, sf, clock)
            IN  /\ db' = r.cat
                /\ last' = Last("process_single_image", path, 0, r.raised,
                                r.photo_id, dets, faces, sf, r.calls, FALSE)
                /\ firstId' = NoteFirstIds(r.cat)
    /\ clock' = clock + 1
    /\ UNCHANGED <<batch, galleryVars>>

Next == RunProcessSingleImage

\* The single-image command, run any number of times.
Spec == Init /\ [][Next]_vars

\* In a directory run the detector finds at most one person and the
\* locator no face.
BatchDetLists ==
    { l \in DetectorLists :
        Len(l) <= 1 /\ \A i \in 1..Len(l) : l[i].class_name = "person" }

BatchFaceLists == { l \in FaceLists : l = <<>> }

\* The catalog after an earlier, successful run on a path.
Processed(cat, path, dets) ==
    ProcessSingleImage(cat, path, "yolov8n.pt", dets, <<>>, NoStepFail, 1).cat

\* Catalogs that earlier runs leave: the new catalog; a.jpg processed;
\* also b.JPG ingested with no detection; all three images processed.
SeedCatalogs ==
    LET withPerson == { l \in BatchDetLists : l # <<>> }
        s1 == { Processed(EmptyCatalog, PathA, l) : l \in withPerson }
        s2 == { Processed(c, PathB, <<>>) : c \in s1 }
        s3 == UNION { { Processed(d, PathC, l) :
                          d \in { Processed(c, PathB, l) : c \in s1 } } :
                      l \in withPerson }
    IN  {EmptyCatalog} \cup s1 \cup s2 \cup s3

InitBatch ==
    /\ db \in SeedCatalogs
    /\ clock = 2
    /\ last = Last("init", <<>>, 0, FALSE, 0, <<>>, <<>>, NoStepFail, {}, FALSE)
    /\ batch \in { IdleBatch(c) : c \in BOOLEAN }
    /\ firstId = [p \in { r.file_path : r \in db.photos } |->
                    (CHOOSE r \in PhotosByPath(db, p) : TRUE).id]
    /\ known = NoKnownFaces
    /\ matcher = EmptyMatcher
    /\ probe = NoProbe

\* The directory command starts: process_directory enumerates the files.
StartProcessDirectory ==
    /\ batch.pc = "idle"
    /\ \E exts \in ExtensionLists, force \in BOOLEAN :
         LET found == FoundFiles(FileUniverse, exts, batch.caseFold)
         IN  \E listing \in Listings(Range(found)) :
               LET files == ImageFiles(found, listing)
               IN  batch' = [batch EXCEPT
                       !.pc = IF files = <<>> THEN "returned" ELSE "running",
                       !.files = files, !.force = force, !.found = found,
                       !.file_extensions = exts]
    /\ last' = Last("process_directory", <<>>, 0, FALSE, 0, <<>>, <<>>,
                    NoStepFail, {}, FALSE)
    /\ UNCHANGED <<db, clock, firstId, galleryVars>>

\* process_directory handles the next file of image_files, and returns the
\* results after the last one.
ProcessDirectoryStep ==
    /\ batch.pc = "running"
    /\ batch.idx <= Len(batch.files)
    /\ LET path == batch.files[batch.idx]
       IN  \E queryRaises \in (IF batch.force THEN {FALSE} ELSE BOOLEAN),
              model \in ModelNames,
              dets \in BatchDetLists, faces \in BatchFaceLists :
             \E sf \in ProcessFails(path, dets, faces) :
               LET r == LoopPass(db, batch.results, path, batch.force,
                                 queryRaises, model, dets, faces, sf, clock)
               IN  /\ db' = r.cat
                   /\ batch' = [batch EXCEPT
                         !.results = r.results,
                         !.idx = @ + 1,
                         !.pc = IF r.pc = "raised" THEN "raised"
                                ELSE IF batch.idx = Len(batch.files)
                                THEN "returned" ELSE "running"]
                   /\ last' =
                        IF r.calls = {}
                        THEN Last("loop_pass", path, 0, FALSE, 0, <<>>, <<>>,
                                  NoStepFail, {}, queryRaises)
                        ELSE Last("loop_pass", path, 0, r.raised, 0, dets,
                                  faces, sf, r.calls, queryRaises)
                   /\ firstId' = NoteFirstIds(r.cat)
    /\ UNCHANGED <<clock, galleryVars>>

NextBatch ==
    \/ StartProcessDirectory
    \/ ProcessDirectoryStep

\* The directory command, run once on a catalog that earlier runs left.
SpecBatch == InitBatch /\ [][NextBatch]_vars

-----------------------------------------------------------------------------
(* Properties.                                                             *)

\* The photo rows of a path and the rows of every table that belong to them.
PhotoView(cat, path) ==
    LET rows == PhotosByPath(cat, path)
    IN  [photos |-> rows,
         exif   |-> { Rows(cat.exif_data, r.id) : r \in rows },
         events |-> { Rows(cat.object_detections, r.id) : r \in rows },
         summaries |-> { Rows(cat.object_summary, r.id) : r \in rows },
         faces  |-> { Rows(cat.face_detections, r.id) : r \in rows },
         face_summary |-> { Rows(cat.face_summary, r.id) : r \in rows }]

\* C1: after a run of process_single_image that returned, the photo's
\* object_detections rows are the detections the detector returned in that
\* run and its object_summary rows are their aggregation, whatever an
\* earlier run stored (also when the detector returned nothing).
C1_ObjectsReflectLastRun ==
    (last.op = "process_single_image" /\ ~last.raised) =>
        /\ Rows(db.object_detections, last.value) = EventRows(last.dets)
        /\ Rows(db.object_summary, last.value) = Aggregate(last.dets)

\* C2: after a run of process_single_image that returned and in which the
\* encoder did not fail, the photo's face_detections rows are the faces of
\* that run, and every face_summary row of the photo counts those faces.
C2_FacesReflectLastRun ==
    (last.op = "process_single_image" /\ ~last.raised
        /\ last.fail.step # "encoder") =>
        /\ Rows(db.face_detections, last.value) = last.faces
        /\ last.faces # <<>> =>
              Len(Rows(db.face_summary, last.value)) = 1
        /\ \A i \in 1..Len(Rows(db.face_summary, last.value)) :
              LET row == Rows(db.face_summary, last.value)[i]
              IN  /\ row.total_faces = Len(last.faces)
                  /\ row.recognized_faces =
                        Cardinality({ j \in 1..Len(last.faces) :
                            last.faces[j].recognized_name # NoName })

\* The events of a class among the object_detections rows of a photo.
EventsOfClass(cat, pid, name) ==
    { i \in 1..Len(Rows(cat.object_detections, pid)) :
        Rows(cat.object_detections, pid)[i].class_name = name }

\* The sum of the confidences of the events of a class.
ConfidenceSum(cat, pid, name) ==
    LET ev == Rows(cat.object_detections, pid)
    IN  SumSeq([k \in 1..Len(ev) |->
                  IF k \in EventsOfClass(cat, pid, name)
                  THEN ev[k].confidence ELSE 0])

\* The object_summary rows of photo pid have one row per distinct
\* class_name of its object_detections rows, with total_count the number of
\* events of the class and max_confidence their maximum.
CountsAndMaxima(cat, pid) ==
    LET ev == Rows(cat.object_detections, pid)
        sm == Rows(cat.object_summary, pid)
    IN  /\ { sm[i].class_name : i \in 1..Len(sm) }
             = { ev[i].class_name : i \in 1..Len(ev) }
        /\ \A i, j \in 1..Len(sm) :
             sm[i].class_name = sm[j].class_name => i = j
        /\ \A i \in 1..Len(sm) :
             LET own == EventsOfClass(cat, pid, sm[i].class_name)
             IN  /\ sm[i].total_count = Cardinality(own)
                 /\ \A k \in own : ev[k].confidence <= sm[i].max_confidence
                 /\ \E k \in own : ev[k].confidence = sm[i].max_confidence

PhotosWithObjects(cat) ==
    DOMAIN cat.object_detections \cup DOMAIN cat.object_summary

\* C3 as claimed: in every committed catalog state the object_summary rows
\* of each photo are the aggregation of its object_detections rows: one row
\* per distinct class_name, total_count the number of events of the class,
\* max_confidence their maximum, avg_confidence their mean.
C3_SummaryIsAggregation ==
    \A pid \in PhotosWithObjects(db) :
        /\ CountsAndMaxima(db, pid)
        /\ \A i \in 1..Len(Rows(db.object_summary, pid)) :
             LET row == Rows(db.object_summary, pid)[i]
             IN  row.avg_confidence * row.total_count
                   = ConfidenceSum(db, pid, row.class_name)

\* C3 amended: the same, with avg_confidence within 0.0001 (one unit of the
\* DECIMAL(5,4) columns) of the mean of the stored confidences.
C3_SummaryIsAggregationToColumnScale ==
    \A pid \in PhotosWithObjects(db) :
        /\ CountsAndMaxima(db, pid)
        /\ \A i \in 1..Len(Rows(db.object_summary, pid)) :
             LET row == Rows(db.object_summary, pid)[i]
                 total == ConfidenceSum(db, pid, row.class_name)
             IN  /\ row.avg_confidence * row.total_count
                       <= total + row.total_count
                 /\ row.avg_confidence * row.total_count
                       >= total - row.total_count

\* C3 witness: after a failing call, a photo holds two events of one class
\* with different confidences, summarised in one row whose avg_confidence is
\* the rounded mean.
C3_Witness ==
    /\ last.raised
    /\ \E pid \in DOMAIN db.object_detections :
         LET ev == Rows(db.object_detections, pid)
         IN  /\ Len(ev) = 2
             /\ ev[1].class_name = ev[2].class_name
             /\ ev[1].confidence # ev[2].confidence
             /\ Len(Rows(db.object_summary, pid)) = 1
             /\ Rows(db.object_summary, pid)[1].avg_confidence * 2
                   # ev[1].confidence + ev[2].confidence

\* C4: a call of add_object_detections that fails at any step raises, and
\* leaves the committed object_detections rows, object_summary rows and
\* photos rows (processed_at with them) as they were before the call.
C4_FailedReplaceRollsBack ==
    [][ last'.op = "add_object_detections" =>
          /\ last'.fail.at # "none" => last'.raised
          /\ last'.raised =>
               /\ db'.object_detections = db.object_detections
               /\ db'.object_summary = db.object_summary
               /\ db'.photos = db.photos ]_vars

\* C4 witness: a call failed at its second summary INSERT, after the
\* DELETEs and the event INSERTs, on a photo whose committed events are not
\* those of the failing call.
C4_Witness ==
    /\ last.op = "add_object_detections"
    /\ last.raised
    /\ last.fail.at = "summary" /\ last.fail.k = 2
    /\ Rows(db.object_detections, last.pid) # <<>>
    /\ Rows(db.object_detections, last.pid) # last.dets
    /\ \E r \in PhotosById(db, last.pid) : r.processed_at # NullTime

\* C5: a run of process_single_image that raises leaves every record of the
\* photo of its path as it was before the run.
C5_FailedRunLeavesPhoto ==
    [][ (last'.op = "process_single_image" /\ last'.raised) =>
          PhotoView(db', last'.path) = PhotoView(db, last'.path) ]_vars

\* C6: no two photos rows share a file_path; the row of a path keeps the id
\* of its first ingestion; add_photo, when it returns, returns that id.
C6_OnePhotoPerPath ==
    /\ \A r1, r2 \in db.photos : r1.file_path = r2.file_path => r1 = r2
    /\ \A p \in DOMAIN firstId :
         \E r \in PhotosByPath(db, p) : r.id = firstId[p]
    /\ (last.op = "add_photo" /\ ~last.raised) =>
         /\ last.path \in DOMAIN firstId
         /\ last.value = firstId[last.path]

\* C6 witness: add_photo returned for a path whose row was created by an
\* earlier call, and wrote other file fields into it.
C6_Witness ==
    /\ last.op = "add_photo" /\ ~last.raised
    /\ \E r \in PhotosByPath(db, last.path) :
         /\ r.created_at < clock - 1
         /\ r.id = last.value
         /\ r.meta = "200x200"
    /\ Cardinality(db.photos) = 1
    /\ clock = MaxCalls + 1

\* The catalog holds a photo of the path with non-null processed_at.
HasProcessedPhoto(cat, path) ==
    \E r \in cat.photos : r.file_path = path /\ r.processed_at # NullTime

\* The result the last pass of the loop appended.
LastResult(b) == b.results[Len(b.results)]

\* C7 as claimed: without force, a pass on a path that has a processed
\* photo appends status=skipped, invokes no collaborator and writes
\* nothing; with force, no result is skipped.
C7_ProcessedIsSkipped ==
    [][ last'.op = "loop_pass" =>
          /\ (~batch.force /\ HasProcessedPhoto(db, last'.path)) =>
               /\ Len(batch'.results) = Len(batch.results) + 1
               /\ LastResult(batch').status = "skipped"
               /\ last'.calls = {}
               /\ db' = db
          /\ batch.force =>
               \A i \in 1..Len(batch'.results) :
                  batch'.results[i].status # "skipped" ]_vars

\* C7 amended: the same, for the passes whose already-processed query did
\* not raise.
C7_ProcessedIsSkippedUnlessQueryFails ==
    [][ last'.op = "loop_pass" =>
          /\ (~batch.force /\ HasProcessedPhoto(db, last'.path)
                /\ ~last'.queryRaised) =>
               /\ Len(batch'.results) = Len(batch.results) + 1
               /\ LastResult(batch').status = "skipped"
               /\ last'.calls = {}
               /\ db' = db
          /\ batch.force =>
               \A i \in 1..Len(batch'.results) :
                  batch'.results[i].status # "skipped" ]_vars

\* C7 witness: a run without force has skipped a processed path and gone on
\* to process another one.
C7_Witness ==
    /\ ~batch.force
    /\ Len(batch.results) >= 2
    /\ batch.results[1].status = "skipped"
    /\ HasProcessedPhoto(db, batch.results[1].file_path)
    /\ batch.results[2].status = "processed"

\* C8: after a run of process_single_image that returned, the photo of the
\* path has non-null processed_at.
C8_ReturnedRunSetsProcessedAt ==
    (last.op = "process_single_image" /\ ~last.raised) =>
        HasProcessedPhoto(db, last.path)

C10_FilesOnceAndSorted ==
    batch.pc # "idle" =>
        /\ Range(batch.files) = Range(batch.found)
        /\ \A i, j \in 1..Len(batch.files) :
             i < j => StrLess(batch.files[i], batch.files[j])
        /\ \A i \in 1..Len(batch.results) :
             batch.results[i].file_path = batch.files[i]

\* C10 witness: files were found by more than one pattern, and the returned
\* results of three files mix processed, skipped and error.
C10_Witness ==
    /\ batch.pc = "returned"
    /\ Len(batch.found) > Cardinality(Range(batch.found))
    /\ Len(batch.files) = 3
    /\ { batch.results[i].status : i \in 1..Len(batch.results) }
         = {"processed", "skipped", "error"}

\* C11: a run of process_single_image in which add_photo, the detector, the
\* encoder, or a catalog write or commit failed raises to its caller; it
\* does not return a result dict.
C11_FailuresPropagate ==
    (last.op = "process_single_image" /\ last.fail.step # "none") =>
        last.raised

-----------------------------------------------------------------------------
(* FaceProcessor: recognition of one face against the known faces          *)

MaxGallery == 3

\* recognized_confidence = 1.0 - distance: the 1.0, in tenths.
FullConfidence == 10

\* Face encodings are vectors; here of one coordinate, in tenths.
Encodings == {0, 3, 6, 9}
Tolerances == {2, DefaultTolerance}
PersonNames == {"alice", "bob"}

Abs(x) == IF x < 0 THEN -x ELSE x

\* face_recognition.face_distance: the Euclidean distance to each known
\* encoding.
FaceDistance(known_face_encodings, face_encoding) ==
    [i \in 1..Len(known_face_encodings) |->
        Abs(known_face_encodings[i] - face_encoding)]

\* face_recognition.compare_faces: distance <= tolerance, per known face.
CompareFaces(known_face_encodings, face_encoding, tolerance) ==
    [i \in 1..Len(known_face_encodings) |->
        FaceDistance(known_face_encodings, face_encoding)[i] <= tolerance]

\* np.argmin: the index of the first occurrence of the minimum.
ArgMinLast(distances) ==
    CHOOSE i \in 1..Len(distances) :
        /\ \A j \in 1..Len(distances) : distances[i] <= distances[j]
        /\ \A j \in (i + 1)..Len(distances) : distances[j] # distances[i]

ArgMin(distances) ==
    CHOOSE i \in 1..Len(distances) :
        /\ \A j \in 1..Len(distances) : distances[i] <= distances[j]
        /\ \A j \in 1..(i - 1) : distances[j] # distances[i]

Recognition(name, confidence) ==
    [recognized_name |-> name, recognized_confidence |-> confidence]

\* recognized_name = None, recognized_confidence = None
NoRecognition == Recognition(NoName, -1)

\* The best match once some known face matches.
BestMatch(m, matches, face_distances) ==
    IF matches[ArgMin(face_distances)]
    THEN Recognition(m.known_face_names[ArgMin(face_distances)],
                     FullConfidence - face_distances[ArgMin(face_distances)])
    ELSE NoRecognition

\* The recognition of one face encoding in detect_faces_in_image.
Recognize(m, face_encoding) ==
    IF m.known_face_encodings # <<>>
    THEN IF TRUE \in Range(CompareFaces(m.known_face_encodings, face_encoding,
                                        m.tolerance))
         THEN BestMatch(m,
                  CompareFaces(m.known_face_encodings, face_encoding,
                               m.tolerance),
                  FaceDistance(m.known_face_encodings, face_encoding))
         ELSE NoRecognition
    ELSE NoRecognition

\* The galleries of at most MaxGallery known faces.
Matchers ==
    UNION { { [known_face_encodings |-> e, known_face_names |-> n,
               tolerance |-> t] :
                e \in [1..k -> Encodings], n \in [1..k -> PersonNames],
                t \in Tolerances } : k \in 0..MaxGallery }

InitMatch ==
    /\ db = EmptyCatalog
    /\ clock = 1
    /\ last = Last("init", <<>>, 0, FALSE, 0, <<>>, <<>>, NoStepFail, {}, FALSE)
    /\ batch = IdleBatch(FALSE)
    /\ firstId = EmptyTable
    /\ known = NoKnownFaces
    /\ matcher \in Matchers
    /\ probe \in { [kind |-> "face", face_encoding |-> e] : e \in Encodings }

\* detect_faces_in_image recognizes the face.
RecognizeFace ==
    /\ probe.kind = "face"
    /\ last' = [op |-> "recognize",
                result |-> Recognize(matcher, probe.face_encoding)]
    /\ UNCHANGED <<db, clock, batch, firstId, known, matcher, probe>>

NextMatch == RecognizeFace

SpecMatch == InitMatch /\ [][NextMatch]_vars

\* The distances of the probe to the gallery entries.
ProbeDistances == FaceDistance(matcher.known_face_encodings, probe.face_encoding)

\* The gallery entries whose distance passes the tolerance.
Candidates == { i \in 1..Len(ProbeDistances) :
                    ProbeDistances[i] <= matcher.tolerance }

\* C12: the recognition computed by detect_faces_in_image is the
\* filter-then-argmin rule: no name and no confidence if the gallery is
\* empty or no distance is <= tolerance; otherwise the name of the entry of
\* minimum distance among those <= tolerance, the lowest index winning ties,
\* with confidence 1 - that distance.
C12_RecognitionIsFilterThenArgmin ==
    last.op = "recognize" =>
        IF Candidates = {}
        THEN last.result = NoRecognition
        ELSE \E i \in Candidates :
               /\ \A j \in Candidates : ProbeDistances[i] <= ProbeDistances[j]
               /\ \A j \in Candidates :
                    ProbeDistances[j] = ProbeDistances[i] => i <= j
               /\ last.result =
                    Recognition(matcher.known_face_names[i],
                                FullConfidence - ProbeDistances[i])

\* C12 witness: two entries of different names tie at the minimum distance,
\* a third entry fails the tolerance, and the first of the two is recognized.
C12_Witness ==
    /\ last.op = "recognize"
    /\ Len(ProbeDistances) = 3
    /\ Cardinality(Candidates) = 2
    /\ \E i, j \in Candidates :
         /\ i < j
         /\ ProbeDistances[i] = ProbeDistances[j]
         /\ matcher.known_face_names[i] # matcher.known_face_names[j]
         /\ last.result.recognized_name = matcher.known_face_names[i]

-----------------------------------------------------------------------------
(* PhotoDatabase.add_known_face, get_known_faces; load_known_faces         *)

\* Python None and SQL NULL of known_faces.image_path.
NoPath == ""

\* The reference images: the subfolder of an image is the person's name.
KnownImages ==
    { [name |-> "alice", image_path |-> "faces/alice/1.jpg"],
      [name |-> "bob", image_path |-> "faces/bob/1.jpg"] }

KnownEncodings == {0, 3}

\* pickle.dumps of an encoding, and pickle.loads of the bytes.
PickleDumps(face_encoding) == [bytes |-> face_encoding]
PickleLoads(b) == b.bytes

\* What load_known_faces_from_folder returns: for each image in which a
\* face was found, the name, the pickled encoding and the image path.
FolderFaces ==
    { l \in SeqsUpTo({ [name |-> i.name, face_encoding |-> PickleDumps(e),
                        image_path |-> i.image_path] :
                          i \in KnownImages, e \in KnownEncodings },
                     Cardinality(KnownImages)) :
        \A a, b \in 1..Len(l) : l[a].image_path = l[b].image_path => a = b }

\* SELECT id FROM known_faces WHERE image_path = %s: no row when the
\* parameter is NULL.
ExistingKnownFaces(kn, image_path) ==
    IF image_path = NoPath THEN {}
    ELSE { r \in kn.rows : r.image_path = image_path }

\* UPDATE known_faces SET name, face_encoding WHERE image_path = %s
UpdateKnownFace(kn, name, face_encoding, image_path) ==
    [kn EXCEPT !.rows =
        { IF r \in ExistingKnownFaces(kn, image_path)
          THEN [r EXCEPT !.name = name, !.face_encoding = face_encoding]
          ELSE r : r \in kn.rows }]

\* INSERT INTO known_faces (name, face_encoding, image_path)
InsertKnownFace(kn, name, face_encoding, image_path) ==
    [rows |-> kn.rows \cup { [id |-> kn.nextId, name |-> name,
                              face_encoding |-> face_encoding,
                              image_path |-> image_path] },
     nextId |-> kn.nextId + 1]

KnownFaceFails == {"none", "select", "write", "commit"}

\* add_known_face: the committed table, whether it raised, the id returned.
AddKnownFace(kn, name, face_encoding, image_path, fail) ==
    LET existing == ExistingKnownFaces(kn, image_path)
        work == IF existing # {}
                THEN UpdateKnownFace(kn, name, face_encoding, image_path)
                ELSE InsertKnownFace(kn, name, face_encoding, image_path)
        face_id == IF existing # {}
                   THEN (CHOOSE r \in existing : TRUE).id ELSE kn.nextId
    IN  IF fail = "select" THEN [known |-> kn, raised |-> TRUE, value |-> 0]
        ELSE IF fail = "write"
        THEN [known |-> kn, raised |-> TRUE, value |-> 0]
        ELSE IF fail = "commit"
        THEN [known |-> [kn EXCEPT !.nextId = work.nextId],
              raised |-> TRUE, value |-> 0]
        ELSE [known |-> work, raised |-> FALSE, value |-> face_id]

\* The order of the names under ORDER BY name.
NameRank(name) == IF name = "alice" THEN 1 ELSE 2

\* The orders of a set of rows that ascend by name; rows of one name come in
\* any order.
RECURSIVE OrderedByName(_)
OrderedByName(rows) ==
    IF rows = {} THEN { <<>> }
    ELSE UNION { { <<r>> \o rest : rest \in OrderedByName(rows \ {r}) } :
                 r \in { q \in rows :
                           \A o \in rows :
                              NameRank(q.name) <= NameRank(o.name) } }

\* SELECT * FROM known_faces ORDER BY name
GetKnownFaces(kn) == OrderedByName(kn.rows)

\* set_known_faces: the gallery is replaced by the given faces.
SetKnownFaces(m, known_faces) ==
    [m EXCEPT
       !.known_face_encodings =
           [i \in 1..Len(known_faces) |->
               PickleLoads(known_faces[i].face_encoding)],
       !.known_face_names =
           [i \in 1..Len(known_faces) |-> known_faces[i].name]]

\* load_known_faces: each face of the folder is stored with add_known_face,
\* an exception of which is logged and passed over; failed is the set of
\* faces whose call fails at its commit.
RECURSIVE StoreKnownFaces(_, _, _, _)
StoreKnownFaces(kn, known_faces, i, failed) ==
    IF i > Len(known_faces) THEN kn
    ELSE StoreKnownFaces(
             AddKnownFace(kn, known_faces[i].name,
                          known_faces[i].face_encoding,
                          known_faces[i].image_path,
                          IF i \in failed THEN "commit" ELSE "none").known,
             known_faces, i + 1, failed)

\* A caller of the catalog calls add_known_face, with or without image_path.
CallAddKnownFace ==
    /\ clock <= MaxCalls
    /\ \E i \in KnownImages, e \in KnownEncodings, omit \in BOOLEAN,
          fail \in KnownFaceFails :
         LET image_path == IF omit THEN NoPath ELSE i.image_path
             r == AddKnownFace(known, i.name, PickleDumps(e), image_path, fail)
         IN  /\ known' = r.known
             /\ last' = [op |-> "add_known_face", name |-> i.name,
                         face_encoding |-> PickleDumps(e),
                         image_path |-> image_path, raised |-> r.raised,
                         value |-> r.value,
                         existed |-> ExistingKnownFaces(known, image_path)]
    /\ clock' = clock + 1
    /\ UNCHANGED <<db, batch, firstId, matcher, probe>>

\* The processor is given a folder of known faces: load_known_faces.
LoadKnownFaces ==
    /\ clock <= MaxCalls
    /\ \E known_faces \in FolderFaces :
         \E failed \in SUBSET (1..Len(known_faces)) :
            /\ known' = StoreKnownFaces(known, known_faces, 1, failed)
            /\ matcher' = SetKnownFaces(matcher, known_faces)
            /\ last' = [op |-> "load_known_faces", known_faces |-> known_faces,
                        failed |-> failed]
    /\ clock' = clock + 1
    /\ UNCHANGED <<db, batch, firstId, probe>>

\* The processor is built without a folder: load_known_faces_from_database.
LoadKnownFacesFromDatabase ==
    /\ clock <= MaxCalls
    /\ \E known_faces \in GetKnownFaces(known) :
         matcher' = SetKnownFaces(matcher, known_faces)
    /\ last' = [op |-> "load_known_faces_from_database"]
    /\ clock' = clock + 1
    /\ UNCHANGED <<db, batch, firstId, known, probe>>

NextGallery ==
    \/ CallAddKnownFace
    \/ LoadKnownFaces
    \/ LoadKnownFacesFromDatabase

SpecGallery == Init /\ [][NextGallery]_vars

\* The entries (name, encoding) of the gallery in memory and of the table.
GalleryEntries(m) ==
    { <<m.known_face_names[i], m.known_face_encodings[i]>> :
        i \in 1..Len(m.known_face_names) }

TableEntries(kn) ==
    { <<r.name, PickleLoads(r.face_encoding)>> : r \in kn.rows }

\* C13: after load_known_faces has completed, the gallery in memory holds
\* exactly the entries of the whole known_faces table, those persisted
\* earlier and absent from the folder included.
C13_GalleryIsWholeTable ==
    last.op = "load_known_faces" =>
        /\ GalleryEntries(matcher) = TableEntries(known)
        /\ Len(matcher.known_face_names) = Cardinality(known.rows)

\* C14: the known_faces table holds at most one row per image_path, after
\* any sequence of add_known_face calls, calls that omit image_path
\* included; a call that returned for an image_path that had a row returned
\* that row's id.
C14_OneKnownFacePerPath ==
    /\ \A r, q \in known.rows : r.image_path = q.image_path => r = q
    /\ (last.op = "add_known_face" /\ ~last.raised) =>
          \A r \in known.rows :
             r.image_path = last.image_path =>
                /\ r.id = last.value
                /\ r.name = last.name
                /\ r.face_encoding = last.face_encoding

-----------------------------------------------------------------------------
(* Properties of the face summary                                          *)

\* C15: every face_summary row has total_faces = recognized_faces +
\* unrecognized_faces with the three counts >= 0, whatever list of faces the
\* call was given (the empty list included), and total_faces is the number
\* of face_detections rows of the photo.
C15_FaceSummaryCountsAddUp ==
    \A pid \in DOMAIN db.face_summary \cup DOMAIN db.face_detections :
        /\ Len(Rows(db.face_detections, pid)) > 0 =>
              Len(Rows(db.face_summary, pid)) > 0
        /\ \A i \in 1..Len(Rows(db.face_summary, pid)) :
             LET row == Rows(db.face_summary, pid)[i]
             IN  /\ row.total_faces
                      = row.recognized_faces + row.unrecognized_faces
                 /\ row.total_faces >= 0
                 /\ row.recognized_faces >= 0
                 /\ row.unrecognized_faces >= 0
                 /\ row.total_faces = Len(Rows(db.face_detections, pid))

\* C15 witness: a call with the empty list has written the row 0 = 0 + 0
\* for a photo.
C15_Witness ==
    /\ last.op = "add_face_detections" /\ ~last.raised /\ last.faces = <<>>
    /\ last.pid \in PhotoIds(db)
    /\ Rows(db.face_detections, last.pid) = <<>>
    /\ Rows(db.face_summary, last.pid)
         = << [total_faces |-> 0, recognized_faces |-> 0,
               unrecognized_faces |-> 0] >>

\* C16: after a run of process_single_image that returned, the photo has
\* exactly one face_summary row, also when no face was found.
C16_ReturnedRunLeavesFaceSummary ==
    (last.op = "process_single_image" /\ ~last.raised) =>
        Len(Rows(db.face_summary, last.value)) = 1

\* C17: after a call of add_photo that returned, the photo's exif_data rows
\* are what the extraction of that call yielded: no row when it yielded
\* nothing, whatever an earlier call stored; and no photo ever has more than
\* one exif_data row.
C17_ExifIsReplaced ==
    /\ \A pid \in DOMAIN db.exif_data : Len(Rows(db.exif_data, pid)) <= 1
    /\ (last.op = "add_photo" /\ ~last.raised) =>
          Rows(db.exif_data, last.value)
             = IF last.exif = "" THEN <<>> ELSE <<last.exif>>

-----------------------------------------------------------------------------
(* PhotoDatabase.extract_exif_data, _convert_rational,                     *)
(* _convert_gps_to_decimal                                                 *)

\* Python values: None; a float (in thousandths); a string of numbers
\* separated by "/" (the sequence of the numbers); a string that is no
\* number; an IFDRational; and a tuple, which float() rejects with a
\* TypeError.
None == [t |-> "None"]
Float(x) == [t |-> "float", x |-> x]
Str(s) == [t |-> "str", s |-> s]
Text(s) == [t |-> "text", text |-> s]
IFDRational(n, d) == [t |-> "IFDRational", numerator |-> n, denominator |-> d]
Tuple == [t |-> "tuple"]

\* A dict, and dict.get(key).
EmptyDict == [k \in {} |-> None]
Get(d, key) == IF key \in DOMAIN d THEN d[key] ELSE None

\* float(numerator) / float(denominator), in thousandths.
Divide(n, d) == Float((1000 * n) \div d)

\* float(value) of one GPS coordinate: "" when it succeeds, else the
\* exception it raises.
FloatError(value) ==
    IF value.t \in {"float", "IFDRational"} THEN ""
    ELSE IF value.t \in {"str", "text"} THEN "ValueError"
    ELSE "TypeError"

\* float(value) of a float or an IFDRational.
ToFloat(value) ==
    IF value.t = "IFDRational"
    THEN Divide(value.numerator, value.denominator)
    ELSE value

ConvertRationalNoFractionStr(value) ==
    IF value = None THEN None
    ELSE IF value.t = "IFDRational"
    THEN (IF value.denominator = 0 THEN None
          ELSE Divide(value.numerator, value.denominator))
    ELSE IF value.t = "str"
    THEN (IF Len(value.s) = 1 THEN Float(1000 * value.s[1]) ELSE None)
    ELSE IF value.t = "float" THEN value
    ELSE None

\* _convert_rational: every exception inside is caught and gives None.
ConvertRational(value) ==
    IF value = None THEN None
    ELSE IF value.t = "IFDRational"
    THEN (IF value.denominator = 0 THEN None
          ELSE Divide(value.numerator, value.denominator))
    ELSE IF value.t = "str"
    THEN (IF Len(value.s) = 1 THEN Float(1000 * value.s[1])
          ELSE IF Len(value.s) # 2 THEN None
          ELSE IF value.s[2] = 0 THEN None
          ELSE Divide(value.s[1], value.s[2]))
    ELSE IF value.t = "float" THEN value
    ELSE None

\* The first exception of float(gps_coords[0]), float(gps_coords[1]),
\* float(gps_coords[2]); "" when there is none.
RECURSIVE GpsError(_, _)
GpsError(gps_coords, i) ==
    IF i > 3 THEN ""
    ELSE IF i > Len(gps_coords) THEN "IndexError"
    ELSE IF FloatError(gps_coords[i]) # "" THEN FloatError(gps_coords[i])
    ELSE GpsError(gps_coords, i + 1)

\* degrees + minutes / 60.0 + seconds / 3600.0, in thousandths.
GpsDecimal(gps_coords) ==
    ToFloat(gps_coords[1]).x + ToFloat(gps_coords[2]).x \div 60
        + ToFloat(gps_coords[3]).x \div 3600

ConvertGpsToDecimalSouthOnly(gps_coords, ref) ==
    IF gps_coords = <<>> \/ ref \in {None, Text("")}
    THEN [raised |-> FALSE, value |-> None]
    ELSE IF GpsError(gps_coords, 1) \in {"ValueError", "IndexError"}
    THEN [raised |-> FALSE, value |-> None]
    ELSE IF GpsError(gps_coords, 1) # ""
    THEN [raised |-> TRUE, value |-> None]
    ELSE [raised |-> FALSE,
          value |-> Float(IF ref.text = "S"
                          THEN -GpsDecimal(gps_coords)
                          ELSE GpsDecimal(gps_coords))]

\* _convert_gps_to_decimal: the value it returns, or the exception that
\* leaves it; ValueError and IndexError are caught and give None.
ConvertGpsToDecimal(gps_coords, ref) ==
    IF gps_coords = <<>> \/ ref \in {None, Text("")}
    THEN [raised |-> FALSE, value |-> None]
    ELSE IF GpsError(gps_coords, 1) \in {"ValueError", "IndexError"}
    THEN [raised |-> FALSE, value |-> None]
    ELSE IF GpsError(gps_coords, 1) # ""
    THEN [raised |-> TRUE, value |-> None]
    ELSE [raised |-> FALSE,
          value |-> Float(IF ref.text \in {"S", "W"}
                          THEN -GpsDecimal(gps_coords)
                          ELSE GpsDecimal(gps_coords))]

\* The fields read from a tag map that has tags.
ExifFields(exif_data, gps) ==
    [k \in {"camera_make", "f_number"}
           \cup (IF "GPSInfo" \in DOMAIN exif_data
                 THEN {"gps_latitude", "gps_altitude"} ELSE {}) |->
        CASE k = "camera_make" -> Get(exif_data, "Make")
          [] k = "f_number" -> ConvertRational(Get(exif_data, "FNumber"))
          [] k = "gps_latitude" -> gps.value
          [] k = "gps_altitude" -> exif_data["GPSInfo"].GPSAltitude]

\* extract_exif_data of a file: {} when the file has no tags, and when any
\* exception leaves the body.
ExtractExifData(file) ==
    IF file.openRaises THEN EmptyDict
    ELSE IF file.exif = EmptyDict THEN EmptyDict
    ELSE IF "GPSInfo" \in DOMAIN file.exif
    THEN (IF ConvertGpsToDecimal(file.exif["GPSInfo"].GPSLatitude,
                                 file.exif["GPSInfo"].GPSLatitudeRef).raised
          THEN EmptyDict
          ELSE ExifFields(file.exif,
                   ConvertGpsToDecimal(file.exif["GPSInfo"].GPSLatitude,
                                       file.exif["GPSInfo"].GPSLatitudeRef)))
    ELSE ExifFields(file.exif, [raised |-> FALSE, value |-> None])

\* The tag values of the files.
MakeTags == {None, Text("Canon")}
FNumberTags ==
    {None, IFDRational(28, 10), IFDRational(1, 0), Str(<<26, 10>>),
     Str(<<26, 0>>), Text("f/2.8"), Tuple}
GpsCoords == {Float(30000), Text("N"), Tuple}
GpsTriples == {<<>>} \cup [1..2 -> GpsCoords] \cup [1..3 -> GpsCoords]
GpsInfos ==
    {None} \cup
    [GPSLatitude : GpsTriples,
     GPSLatitudeRef : {None, Text("N"), Text("S")},
     GPSAltitude : {None}]

\* The tag map img._getexif() returns, by tag name; a tag of value None is
\* absent.
TagMap(make, fnumber, gps) ==
    [k \in (IF make = None THEN {} ELSE {"Make"})
           \cup (IF fnumber = None THEN {} ELSE {"FNumber"})
           \cup (IF gps = None THEN {} ELSE {"GPSInfo"}) |->
        CASE k = "Make" -> make
          [] k = "FNumber" -> fnumber
          [] k = "GPSInfo" -> gps]

ExifFiles ==
    { [kind |-> "file", openRaises |-> o, exif |-> TagMap(m, f, g)] :
        o \in BOOLEAN, m \in MakeTags, f \in FNumberTags, g \in GpsInfos }

InitExif ==
    /\ db = EmptyCatalog
    /\ clock = 1
    /\ last = Last("init", <<>>, 0, FALSE, 0, <<>>, <<>>, NoStepFail, {}, FALSE)
    /\ batch = IdleBatch(FALSE)
    /\ firstId = EmptyTable
    /\ known = NoKnownFaces
    /\ matcher = EmptyMatcher
    /\ probe \in ExifFiles

\* add_photo reads the EXIF data of the file.
ExtractExif ==
    /\ probe.kind = "file"
    /\ last' = [op |-> "extract_exif_data", result |-> ExtractExifData(probe)]
    /\ UNCHANGED <<db, clock, batch, firstId, known, matcher, probe>>

NextExif == ExtractExif

SpecExif == InitExif /\ [][NextExif]_vars

\* C18: extract_exif_data returns a dict, and a field whose conversion
\* failed is None in it while the other fields of the same tag map are
\* carried: camera_make is the Make tag and f_number the converted FNumber
\* tag whatever the GPS tags are.
C18_FieldFailureNullsOnlyThatField ==
    (last.op = "extract_exif_data" /\ ~probe.openRaises
        /\ probe.exif # EmptyDict) =>
        /\ Get(last.result, "camera_make") = Get(probe.exif, "Make")
        /\ Get(last.result, "f_number")
             = ConvertRational(Get(probe.exif, "FNumber"))

-----------------------------------------------------------------------------
(* PhotoDatabase.search_photos_by_objects                                  *)

\* The class names a caller searches for.
SearchTerms == {"person", "Person", "dog", "cat"}

\* The key under which utf8mb4_unicode_ci, the collation of the tables,
\* compares a string: letters of either case are equal.
Collate(s) == IF s = "Person" THEN "person" ELSE s

\* os.class_name IN (class_names), compared by identity of the strings.
ClassNameInExact(class_name, class_names) == class_name \in class_names

\* os.class_name IN (class_names)
ClassNameIn(class_name, class_names) ==
    Collate(class_name) \in { Collate(c) : c \in class_names }

\* The rows of photos JOIN object_summary that pass the WHERE clause.
JoinedRows(cat, class_names, min_count) ==
    { [id |-> p.id, created_at |-> p.created_at,
       class_name |-> Rows(cat.object_summary, p.id)[i].class_name,
       total_count |-> Rows(cat.object_summary, p.id)[i].total_count] :
        <<p, i>> \in
          { <<q, j>> \in cat.photos \X (1..Cardinality(ClassNames)) :
              /\ j <= Len(Rows(cat.object_summary, q.id))
              /\ ClassNameIn(Rows(cat.object_summary, q.id)[j].class_name,
                             class_names)
              /\ Rows(cat.object_summary, q.id)[j].total_count >= min_count } }

\* ORDER BY p.created_at DESC: the orders of the rows that descend by
\* created_at; rows of one created_at come in any order.
OrderedByCreatedAtDesc(rows) ==
    { l \in Listings(rows) :
        \A i, j \in 1..Len(l) : i < j => l[i].created_at >= l[j].created_at }

\* search_photos_by_objects: with no class name the statement reads IN ()
\* and the server rejects it.
SearchPhotosByObjects(cat, class_names, min_count) ==
    IF class_names = {} THEN { [raised |-> TRUE, rows |-> <<>>] }
    ELSE { [raised |-> FALSE, rows |-> l] :
             l \in OrderedByCreatedAtDesc(
                       JoinedRows(cat, class_names, min_count)) }

\* A detection of a class.
DetectionOf(name) ==
    CHOOSE d \in Detections : d.class_name = name /\ d.confidence >= ConfidenceThreshold

\* The catalog after add_photo of a path at a time, and after
\* add_object_detections for a photo.
WithPhoto(cat, path, now) ==
    AddPhoto(cat, path, FileMetaOf(path), "yolov8n.pt", ExifOf(path),
             NoFail, now).cat

WithObjects(cat, pid, dets, now) ==
    AddObjectDetections(cat, pid, dets, NoFail, now).cat

\* Catalogs of up to three photos: a.jpg with two persons; b.JPG, created
\* in the same second or later, with dogs or a person and a dog; c.png with
\* one person.
SearchCatalogs ==
    LET person == DetectionOf("person")
        dog == DetectionOf("dog")
        s1 == { WithObjects(c, c.nextId - 1, <<person, person>>, 1) :
                  c \in { WithPhoto(EmptyCatalog, PathA, 1) } }
        s2 == UNION { { WithObjects(c, c.nextId - 1, dets, now) :
                          c \in { WithPhoto(b, PathB, now) : b \in s1 } } :
                      now \in 1..2,
                      dets \in {<<person, dog>>, <<dog, dog>>, <<dog>>} }
        s3 == { WithObjects(c, c.nextId - 1, <<person>>, 3) :
                  c \in { WithPhoto(b, PathC, 3) : b \in s2 } }
    IN  {EmptyCatalog} \cup s1 \cup s2 \cup s3

InitSearch ==
    /\ db \in SearchCatalogs
    /\ clock = 1
    /\ last = Last("init", <<>>, 0, FALSE, 0, <<>>, <<>>, NoStepFail, {}, FALSE)
    /\ batch = IdleBatch(FALSE)
    /\ firstId = EmptyTable
    /\ known = NoKnownFaces
    /\ matcher = EmptyMatcher
    /\ probe = NoProbe

\* A caller searches the catalog for photos with objects of some classes.
CallSearchPhotosByObjects ==
    /\ \E class_names \in SUBSET SearchTerms, min_count \in 1..MaxDet :
         \E r \in SearchPhotosByObjects(db, class_names, min_count) :
            last' = [op |-> "search_photos_by_objects",
                     class_names |-> class_names, min_count |-> min_count,
                     raised |-> r.raised, rows |-> r.rows]
    /\ UNCHANGED <<db, clock, batch, firstId, known, matcher, probe>>

NextSearch == CallSearchPhotosByObjects

SpecSearch == InitSearch /\ [][NextSearch]_vars

\* The photos of the returned rows.
ReturnedIds == { last.rows[i].id : i \in 1..Len(last.rows) }

\* The returned rows descend by created_at.
RowsDescend ==
    \A i, j \in 1..Len(last.rows) :
        i < j => last.rows[i].created_at >= last.rows[j].created_at

\* C19 as claimed: a search that returned holds a photo if and only if the
\* photo has an object_summary row whose class_name is one of the class
\* names searched for and whose total_count >= min_count, and the rows are
\* in non-increasing order of created_at.
C19_SearchReturnsMatchingPhotos ==
    (last.op = "search_photos_by_objects" /\ ~last.raised) =>
        /\ \A p \in db.photos :
             p.id \in ReturnedIds <=>
                \E i \in 1..Len(Rows(db.object_summary, p.id)) :
                   /\ Rows(db.object_summary, p.id)[i].class_name
                         \in last.class_names
                   /\ Rows(db.object_summary, p.id)[i].total_count
                         >= last.min_count
        /\ ReturnedIds \subseteq PhotoIds(db)
        /\ RowsDescend

\* C19 amended: the same, with class_name equal to one of the class names
\* searched for under the case-insensitive collation of the tables.
C19_SearchReturnsCollatedMatches ==
    (last.op = "search_photos_by_objects" /\ ~last.raised) =>
        /\ \A p \in db.photos :
             p.id \in ReturnedIds <=>
                \E i \in 1..Len(Rows(db.object_summary, p.id)) :
                   /\ Collate(Rows(db.object_summary, p.id)[i].class_name)
                         \in { Collate(c) : c \in last.class_names }
                   /\ Rows(db.object_summary, p.id)[i].total_count
                         >= last.min_count
        /\ ReturnedIds \subseteq PhotoIds(db)
        /\ RowsDescend

\* C19 witness: a search for two class names with min_count 2 returned two
\* photos of one created_at, and left out a photo that has a row of a class
\* searched for with a lower count.
C19_Witness ==
    /\ last.op = "search_photos_by_objects" /\ ~last.raised
    /\ Cardinality(last.class_names) = 2
    /\ last.min_count = 2
    /\ Cardinality(ReturnedIds) = 2
    /\ \E i, j \in 1..Len(last.rows) :
         i # j /\ last.rows[i].created_at = last.rows[j].created_at
    /\ \E p \in db.photos :
         /\ p.id \notin ReturnedIds
         /\ \E i \in 1..Len(Rows(db.object_summary, p.id)) :
              Rows(db.object_summary, p.id)[i].class_name \in last.class_names

-----------------------------------------------------------------------------
(* Properties of the enumeration                                           *)

\* The files whose extension is one of the extensions, letter case ignored.
FilesWithExtension(fs, exts) ==
    { f \in fs : \E i \in 1..Len(exts) :
                    EndsWith(LowerStr(f), LowerStr(exts[i])) }

\* C20: process_directory enumerates every file of the tree whose extension
\* equals one of file_extensions with letter case ignored, in whatever case
\* the file carries it and the extension was listed.
C20_ExtensionsMatchAnyCase ==
    batch.pc # "idle" =>
        Range(batch.files)
           = FilesWithExtension(FileUniverse, batch.file_extensions)

-----------------------------------------------------------------------------
(* The directory command of cli.py: the processing summary it prints.      *)

\* 'error' not in r: only the result that the except branch of the loop
\* builds carries the key.
HasError(r) == r.status = "error"

WithoutError(results) == SelectSeq(results, LAMBDA r : ~HasError(r))

\* sum(r.get('detections_count', 0) for r in results if 'error' not in r)
TotalObjects(results) ==
    SumSeq([i \in 1..Len(WithoutError(results)) |->
               WithoutError(results)[i].detections_count])

\* The lines print writes, each label with its number.  The last line is
\* printed only if some result carries no error.
SummaryLines(total, successful, objects) ==
    IF successful > 0
    THEN ("Total images" :> total) @@ ("Successful" :> successful)
         @@ ("Failed" :> total - successful)
         @@ ("Total objects detected" :> objects)
    ELSE ("Total images" :> total) @@ ("Successful" :> successful)
         @@ ("Failed" :> total - successful)

ProcessingSummary(results) ==
    SummaryLines(Len(results), Len(WithoutError(results)),
                 TotalObjects(results))

\* process_directory(args) of cli.py, after the processor returned the
\* results: it prints the summary and the command ends.
CliProcessDirectory ==
    /\ batch.pc = "returned"
    /\ batch' = [batch EXCEPT !.pc = "printed"]
    /\ last' = [op |-> "print_summary",
                summary |-> ProcessingSummary(batch.results)]
    /\ UNCHANGED <<db, clock, firstId, galleryVars>>

NextCli ==
    \/ StartProcessDirectory
    \/ ProcessDirectoryStep
    \/ CliProcessDirectory

\* The directory command from its start to the summary it prints.
SpecCli == InitBatch /\ [][NextCli]_vars

\* The number of results that carry a status.
CountStatus(results, status) ==
    Len(SelectSeq(results, LAMBDA r : r.status = status))

\* The detections_count of the results with status=processed, summed.
ProcessedObjects(results) ==
    SumSeq([i \in 1..Len(results) |->
               IF results[i].status = "processed"
               THEN results[i].detections_count ELSE 0])

CountLabels(summary) == DOMAIN summary \ {"Total objects detected"}

\* C21: the summary of a directory run holds three separate counts, the
\* numbers of processed, of skipped and of error files, which add up to
\* the number of enumerated files, and a total of objects detected that is
\* the sum of detections_count over the processed files.
C21_SummaryCountsByStatus ==
    last.op = "print_summary" =>
        /\ \E p, s, e \in CountLabels(last.summary) :
             /\ p # s /\ s # e /\ p # e
             /\ last.summary[p] = CountStatus(batch.results, "processed")
             /\ last.summary[s] = CountStatus(batch.results, "skipped")
             /\ last.summary[e] = CountStatus(batch.results, "error")
             /\ last.summary[p] + last.summary[s] + last.summary[e]
                  = Len(batch.files)
        /\ "Total objects detected" \in DOMAIN last.summary
        /\ last.summary["Total objects detected"]
             = ProcessedObjects(batch.results)

-----------------------------------------------------------------------------
(* PhotoDatabase._validate_and_parse_datetime                              *)

\* The str of an EXIF date: the sequence of its characters.
Chars(s) == [t |-> "chars", chars |-> s]

DigitChars == <<"0", "1", "2", "3", "4", "5", "6", "7", "8", "9">>

IsDigit(c) == \E i \in 1..Len(DigitChars) : DigitChars[i] = c

DigitValue(c) == (CHOOSE i \in 1..Len(DigitChars) : DigitChars[i] = c) - 1

IsNumber(s) == s # <<>> /\ \A i \in 1..Len(s) : IsDigit(s[i])

\* int(s) of a str of digits.
RECURSIVE ToInt(_)
ToInt(s) ==
    IF s = <<>> THEN 0
    ELSE 10 * ToInt(SubSeq(s, 1, Len(s) - 1)) + DigitValue(s[Len(s)])

\* A number in decimal digits, padded with zeros to a width.
RECURSIVE Pad(_, _)
Pad(n, width) ==
    IF width = 0 THEN <<>>
    ELSE Pad(n \div 10, width - 1) \o <<DigitChars[(n % 10) + 1]>>

\* str.strip()
RECURSIVE Strip(_)
Strip(s) ==
    IF s = <<>> THEN s
    ELSE IF Head(s) = " " THEN Strip(Tail(s))
    ELSE IF s[Len(s)] = " " THEN Strip(SubSeq(s, 1, Len(s) - 1))
    ELSE s

\* sub in s
Contains(s, sub) ==
    \E i \in 1..(Len(s) - Len(sub) + 1) : SubSeq(s, i, i + Len(sub) - 1) = sub

\* s.startswith(prefix)
StartsWith(s, prefix) ==
    Len(prefix) <= Len(s) /\ SubSeq(s, 1, Len(prefix)) = prefix

\* s.split(sep) for a separator of one character.
RECURSIVE Split(_, _)
Split(s, sep) ==
    IF \A i \in 1..Len(s) : s[i] # sep THEN <<s>>
    ELSE <<SubSeq(s, 1, (CHOOSE i \in 1..Len(s) :
                            s[i] = sep /\ \A j \in 1..(i - 1) : s[j] # sep) - 1)>>
         \o Split(SubSeq(s, (CHOOSE i \in 1..Len(s) :
                            s[i] = sep /\ \A j \in 1..(i - 1) : s[j] # sep) + 1,
                         Len(s)), sep)

ZeroDate == <<"0", "0", "0", "0", ":", "0", "0", ":", "0", "0">>
ZeroYear == <<"0", "0", "0", "0">>
ZeroTime == <<"0", "0", ":", "0", "0", ":", "0", "0">>

\* The test for zeroed dates or times: it looks at the parts only if the
\* str holds '0000' or ':00:00:00'.
IsZeroed(s) ==
    /\ Contains(s, ZeroYear) \/ Contains(s, <<":">> \o ZeroTime)
    /\ Len(Split(s, " ")) >= 2
    /\ \/ StartsWith(Split(s, " ")[1], ZeroYear)
       \/ Split(s, " ")[2] = ZeroTime

\* A datetime, and the order of datetimes.
DateTime(year, month, day, hour, minute, second) ==
    [year |-> year, month |-> month, day |-> day, hour |-> hour,
     minute |-> minute, second |-> second]

RECURSIVE LexAtMost(_, _)
LexAtMost(a, b) ==
    IF a = <<>> THEN TRUE
    ELSE IF Head(a) # Head(b) THEN Head(a) < Head(b)
    ELSE LexAtMost(Tail(a), Tail(b))

\* a <= b of two datetimes.
AtMost(a, b) ==
    LexAtMost(<<a.year, a.month, a.day, a.hour, a.minute, a.second>>,
              <<b.year, b.month, b.day, b.hour, b.minute, b.second>>)

IsLeap(year) == year % 4 = 0 /\ (year % 100 # 0 \/ year % 400 = 0)

DaysInMonth(year, month) ==
    IF month = 2 THEN (IF IsLeap(year) THEN 29 ELSE 28)
    ELSE IF month \in {4, 6, 9, 11} THEN 30 ELSE 31

\* A field of the format: one or two digits (four for %Y).
IsField(s, widths) == Len(s) \in widths /\ IsNumber(s)

\* Whether the fields of a date and of a time are those of a datetime.
FieldsParse(d, t) ==
    /\ Len(d) = 3 /\ Len(t) = 3
    /\ IsField(d[1], {4}) /\ ToInt(d[1]) >= 1
    /\ IsField(d[2], {1, 2}) /\ ToInt(d[2]) \in 1..12
    /\ IsField(d[3], {1, 2})
    /\ ToInt(d[3]) \in 1..DaysInMonth(ToInt(d[1]), ToInt(d[2]))
    /\ IsField(t[1], {1, 2}) /\ ToInt(t[1]) <= 23
    /\ IsField(t[2], {1, 2}) /\ ToInt(t[2]) <= 59
    /\ IsField(t[3], {1, 2}) /\ ToInt(t[3]) <= 59

\* The parts of a str that white space separates.
Words(s) == SelectSeq(Split(s, " "), LAMBDA w : w # <<>>)

\* datetime.strptime(s, '%Y:%m:%d %H:%M:%S') raises ValueError.
StrptimeRaises(s) ==
    \/ Len(Words(s)) # 2
    \/ ~FieldsParse(Split(Words(s)[1], ":"), Split(Words(s)[2], ":"))

\* datetime.strptime(s, '%Y:%m:%d %H:%M:%S') of a str it parses.
FieldsToDateTime(d, t) ==
    DateTime(ToInt(d[1]), ToInt(d[2]), ToInt(d[3]),
             ToInt(t[1]), ToInt(t[2]), ToInt(t[3]))

Strptime(s) ==
    FieldsToDateTime(Split(Words(s)[1], ":"), Split(Words(s)[2], ":"))

\* min_date = datetime(1900, 1, 1); max_date = datetime(2100, 12, 31)
MinDate == DateTime(1900, 1, 1, 0, 0, 0)
MaxDate == DateTime(2100, 12, 31, 0, 0, 0)

\* datetime.isoformat()
IsoFormat(t) ==
    Pad(t.year, 4) \o <<"-">> \o Pad(t.month, 2) \o <<"-">> \o Pad(t.day, 2)
        \o <<"T">> \o Pad(t.hour, 2) \o <<":">> \o Pad(t.minute, 2)
        \o <<":">> \o Pad(t.second, 2)

\* The body of _validate_and_parse_datetime from the stripped str on.
ParseStripped(s) ==
    IF s = <<>> \/ s \in {ZeroDate \o <<" ">> \o ZeroTime, ZeroDate}
    THEN None
    ELSE IF IsZeroed(s) THEN None
    ELSE IF StrptimeRaises(s) THEN None
    ELSE IF AtMost(MinDate, Strptime(s)) /\ AtMost(Strptime(s), MaxDate)
    THEN Chars(IsoFormat(Strptime(s)))
    ELSE None

ValidateAndParseDatetime(date_time_str) ==
    IF date_time_str.t # "chars" THEN None
    ELSE IF date_time_str.chars = <<>> THEN None
    ELSE ParseStripped(Strip(date_time_str.chars))

\* The EXIF dates of the files: the years around the two bounds and year
\* 0, the first and the last day of a year, a day no month has, midnight,
\* the second after it, and the last second of a day; a date without a
\* time; a date with white space around it; no str at all.
ExifYears == {0, 1899, 1900, 2024, 2100, 2101}
ExifDays == {<<1, 1>>, <<12, 31>>, <<2, 30>>, <<0, 0>>}
ExifTimes == {<<0, 0, 0>>, <<0, 0, 1>>, <<12, 30, 0>>, <<23, 59, 59>>,
              <<24, 0, 0>>}

DateStr(year, day) ==
    Pad(year, 4) \o <<":">> \o Pad(day[1], 2) \o <<":">> \o Pad(day[2], 2)

TimeStr(time) ==
    Pad(time[1], 2) \o <<":">> \o Pad(time[2], 2) \o <<":">> \o Pad(time[3], 2)

DateTimeStrs ==
    { DateStr(y, d) \o <<" ">> \o TimeStr(t) :
        y \in ExifYears, d \in ExifDays, t \in ExifTimes }
    \cup { DateStr(y, d) : y \in ExifYears, d \in ExifDays }
    \cup { <<" ">> \o DateStr(y, <<1, 1>>) \o <<" ">> \o TimeStr(<<12, 30, 0>>)
              \o <<" ">> : y \in ExifYears }
    \cup { <<>>, <<" ", " ">>, <<"n", "/", "a">> }

DateTimeInputs ==
    { [kind |-> "datetime", value |-> v] :
        v \in {None, Float(0)} \cup { Chars(s) : s \in DateTimeStrs } }

\* add_photo validates one EXIF date.
CallValidateAndParseDatetime ==
    /\ probe.kind = "datetime"
    /\ last' = [op |-> "validate_and_parse_datetime",
                result |-> ValidateAndParseDatetime(probe.value)]
    /\ UNCHANGED <<db, clock, batch, firstId, known, matcher, probe>>

-----------------------------------------------------------------------------
(* The conversions of EXIF values, each applied to one value.              *)

\* The exception that a statement of the body of _convert_rational raises
\* for a value that is not None; "" when there is none.
RationalError(value) ==
    IF value.t = "text" THEN "ValueError"
    ELSE IF value.t = "str" /\ Len(value.s) > 2 THEN "ValueError"
    ELSE IF value.t = "str" /\ Len(value.s) = 2 /\ value.s[2] = 0
    THEN "ZeroDivisionError"
    ELSE IF value.t = "tuple" THEN "TypeError"
    ELSE ""

\* The classes that `except Exception` catches.
Exceptions == {"ValueError", "ZeroDivisionError", "TypeError", "IndexError"}

\* Whether an exception leaves _convert_rational.
ConvertRationalRaises(value) ==
    /\ value # None
    /\ RationalError(value) \notin Exceptions \cup {""}

\* The values of a rational tag: an IFDRational, a "num/den" str, a str
\* of one number, of three numbers, a float, a str that holds no number,
\* a tuple, None.
Numerators == {0, 1, 26, 28}
Denominators == {0, 1, 10}

RationalValues ==
    { IFDRational(n, d) : n \in Numerators, d \in Denominators }
    \cup { Str(<<n, d>>) : n \in Numerators, d \in Denominators }
    \cup { Str(<<n>>) : n \in Numerators }
    \cup { Float(1000 * n) : n \in Numerators }
    \cup { Str(<<1, 2, 3>>), Text("f/2.8"), Text("auto"), Tuple, None }

RationalInputs == { [kind |-> "rational", value |-> v] : v \in RationalValues }

\* extract_exif_data converts the value of one rational tag.
CallConvertRational ==
    /\ probe.kind = "rational"
    /\ last' = [op |-> "convert_rational",
                raised |-> ConvertRationalRaises(probe.value),
                result |-> ConvertRational(probe.value)]
    /\ UNCHANGED <<db, clock, batch, firstId, known, matcher, probe>>

\* The GPS tags: degrees, minutes and seconds that are numbers, and the
\* coordinates and references of GpsInfos, with the references of the
\* four directions and the empty one.
Degrees == {Float(0), Float(30000), IFDRational(45, 1)}
Minutes == {Float(0), Float(30000), IFDRational(15, 1)}
Seconds == {Float(0), Float(36000)}
GpsRefs == {None, Text(""), Text("N"), Text("S"), Text("E"), Text("W")}

GpsInputs ==
    { [kind |-> "gps", gps_coords |-> c, ref |-> r] :
        c \in GpsTriples
              \cup { <<d, m, s>> : d \in Degrees, m \in Minutes, s \in Seconds },
        r \in GpsRefs }

\* extract_exif_data converts one GPS coordinate.
CallConvertGpsToDecimal ==
    /\ probe.kind = "gps"
    /\ last' = [op |-> "convert_gps_to_decimal",
                result |-> ConvertGpsToDecimal(probe.gps_coords, probe.ref)]
    /\ UNCHANGED <<db, clock, batch, firstId, known, matcher, probe>>

InitConvert ==
    /\ db = EmptyCatalog
    /\ clock = 1
    /\ last = Last("init", <<>>, 0, FALSE, 0, <<>>, <<>>, NoStepFail, {}, FALSE)
    /\ batch = IdleBatch(FALSE)
    /\ firstId = EmptyTable
    /\ known = NoKnownFaces
    /\ matcher = EmptyMatcher
    /\ probe \in DateTimeInputs \cup RationalInputs \cup GpsInputs

NextConvert ==
    \/ CallValidateAndParseDatetime
    \/ CallConvertRational
    \/ CallConvertGpsToDecimal

\* Each conversion applied to each of its inputs.
SpecConvert == InitConvert /\ [][NextConvert]_vars

\* The date part and the time part of a str: what precedes and what
\* follows the first space.
DatePart(s) == Split(s, " ")[1]
TimePart(s) == IF Len(Split(s, " ")) >= 2 THEN Split(s, " ")[2] ELSE <<>>

\* C22: the validator returns None for every str whose date part is
\* 0000:00:00 or starts with the year 0000, and for every str whose time
\* part is 00:00:00, whatever the other part is.
C22_ZeroedPartsGiveNone ==
    (last.op = "validate_and_parse_datetime" /\ probe.value.t = "chars"
        /\ \/ StartsWith(DatePart(Strip(probe.value.chars)), ZeroYear)
           \/ TimePart(Strip(probe.value.chars)) = ZeroTime) =>
        last.result = None

\* A str of the layout YYYY:MM:DD HH:MM:SS that names a date of the
\* calendar and a time of the day.
WellFormed(s) ==
    /\ Len(s) = Len(ZeroDate) + 1 + Len(ZeroTime)
    /\ ~StrptimeRaises(s)

NonZeroed(s) == ~StartsWith(DatePart(s), ZeroYear) /\ TimePart(s) # ZeroTime

\* The day of a datetime lies in the closed range of days.
InDateRange(t) ==
    /\ AtMost(DateTime(1900, 1, 1, 0, 0, 0), t)
    /\ AtMost(t, DateTime(2100, 12, 31, 23, 59, 59))

\* C23: for a well-formed str that is not zeroed, the validator returns
\* the ISO-8601 timestamp if the date lies in 1900-01-01 .. 2100-12-31, at
\* any time of the two days at the bounds, and None otherwise.
C23_RangeIsClosedOnDays ==
    (last.op = "validate_and_parse_datetime" /\ probe.value.t = "chars"
        /\ WellFormed(probe.value.chars)
        /\ NonZeroed(probe.value.chars)) =>
        last.result = IF InDateRange(Strptime(probe.value.chars))
                      THEN Chars(IsoFormat(Strptime(probe.value.chars)))
                      ELSE None

\* C24: _convert_rational accepts a pair (an object with a numerator and
\* a denominator), a "num/den" str and a plain number; of each it returns
\* the quotient if the denominator is not 0, and None if the denominator
\* is 0 or the value cannot be converted; no exception leaves it.
C24_RationalFormsConvert ==
    last.op = "convert_rational" =>
        /\ ~last.raised
        /\ last.result =
             CASE probe.value.t = "IFDRational" ->
                    IF probe.value.denominator = 0 THEN None
                    ELSE Float((1000 * probe.value.numerator)
                                  \div probe.value.denominator)
               [] probe.value.t = "str" /\ Len(probe.value.s) = 2 ->
                    IF probe.value.s[2] = 0 THEN None
                    ELSE Float((1000 * probe.value.s[1]) \div probe.value.s[2])
               [] probe.value.t = "str" /\ Len(probe.value.s) = 1 ->
                    Float(1000 * probe.value.s[1])
               [] probe.value.t = "float" -> probe.value
               [] OTHER -> None

\* The str "26/10" was converted to 2.6.
C24_Witness ==
    /\ last.op = "convert_rational"
    /\ probe.value = Str(<<26, 10>>)
    /\ last.result = Float(2600)

\* Degrees, minutes and seconds that are numbers.
IsTriple(gps_coords) ==
    /\ Len(gps_coords) = 3
    /\ \A i \in 1..3 : gps_coords[i].t \in {"float", "IFDRational"}

\* C25: of a triple of degrees, minutes and seconds, the conversion with
\* reference N or E returns deg + min/60 + sec/3600 and the conversion
\* with reference S or W returns the negation of it; with the coordinates
\* or the reference missing it returns None.
C25_SouthAndWestNegate ==
    last.op = "convert_gps_to_decimal" =>
        /\ (probe.gps_coords = <<>> \/ probe.ref \in {None, Text("")}) =>
              last.result = [raised |-> FALSE, value |-> None]
        /\ (IsTriple(probe.gps_coords) /\ probe.ref \in {Text("N"), Text("E")}) =>
              /\ ~last.result.raised
              /\ last.result.value =
                   Float(ToFloat(probe.gps_coords[1]).x
                         + ToFloat(probe.gps_coords[2]).x \div 60
                         + ToFloat(probe.gps_coords[3]).x \div 3600)
        /\ (IsTriple(probe.gps_coords) /\ probe.ref \in {Text("S"), Text("W")}) =>
              /\ ~last.result.raised
              /\ last.result.value.x =
                   -ConvertGpsToDecimal(probe.gps_coords, Text("N")).value.x
              /\ last.result.value.x =
                   -ConvertGpsToDecimal(probe.gps_coords, Text("E")).value.x

\* 30 degrees 30 minutes 36 seconds West was converted to -30.51.
C25_Witness ==
    /\ last.op = "convert_gps_to_decimal"
    /\ probe.gps_coords = <<Float(30000), Float(30000), Float(36000)>>
    /\ probe.ref = Text("W")
    /\ last.result.value = Float(-30510)

-----------------------------------------------------------------------------
(* Properties of runs that follow one another                              *)

\* The status that the pass of a process_directory run without
\* force_reprocess records for a path on a catalog, when the run on the
\* path raises nothing.
StatusOfNextPass(cat, path, now) ==
    LoopPass(cat, <<>>, path, FALSE, FALSE, "yolov8n.pt", <<>>, <<>>,
             NoStepFail, now).results[1].status

\* C26: a path whose last process_single_image raised, at whatever step,
\* is not skipped by the next directory run without force_reprocess: the
\* run processes it again.
C26_FailedFileIsProcessedAgain ==
    (last.op = "process_single_image" /\ last.raised) =>
        StatusOfNextPass(db, last.path, clock) = "processed"

\* C27: in every catalog that runs of process_single_image leave, a photo
\* whose processed_at is set has at least one object_detections row and
\* at least one object_summary row.
C27_ProcessedHasDetections ==
    \A p \in db.photos :
        p.processed_at # NullTime =>
            /\ Len(Rows(db.object_detections, p.id)) >= 1
            /\ Len(Rows(db.object_summary, p.id)) >= 1

\* A run in which the detector found nothing has returned on a photo that
\* an earlier run had processed.
C27_Witness ==
    /\ last.op = "process_single_image" /\ ~last.raised
    /\ last.dets = <<>>
    /\ \E p \in PhotosByPath(db, last.path) :
         /\ p.processed_at # NullTime
         /\ Len(Rows(db.object_detections, p.id)) >= 1

-----------------------------------------------------------------------------
(* What the writers of the catalog leave alone                             *)

\* The rows of the child tables of a photo.
ChildRows(cat, pid) ==
    [exif_data |-> Rows(cat.exif_data, pid),
     object_detections |-> Rows(cat.object_detections, pid),
     object_summary |-> Rows(cat.object_summary, pid),
     face_detections |-> Rows(cat.face_detections, pid),
     face_summary |-> Rows(cat.face_summary, pid)]

\* The photos that a call is not about: add_photo is about the photo of
\* its path, the two others about the photo of their photo_id.
OtherPhotos(cat, call) ==
    { r \in cat.photos :
        IF call.op = "add_photo" THEN r.file_path # call.path
        ELSE r.id # call.pid }

\* C28: a call of add_photo, add_object_detections or add_face_detections,
\* committed or rolled back, leaves the photos row and the rows of every
\* child table of every other photo as they were, and the known_faces
\* table as it was.
C28_OtherPhotosUnchanged ==
    [][ last'.op \in {"add_photo", "add_object_detections",
                      "add_face_detections"} =>
          /\ \A r \in OtherPhotos(db, last') :
                /\ r \in db'.photos
                /\ ChildRows(db', r.id) = ChildRows(db, r.id)
          /\ known' = known ]_vars

\* A call about one photo has committed rows while another photo has an
\* exif_data row.
C28_Witness ==
    /\ last.op = "add_object_detections" /\ ~last.raised
    /\ last.dets # <<>>
    /\ Rows(db.object_detections, last.pid) # <<>>
    /\ \E r \in OtherPhotos(db, last) : Rows(db.exif_data, r.id) # <<>>

\* C29: add_photo on a path that has a photo leaves the id, created_at and
\* processed_at of the photo and its object_detections, object_summary,
\* face_detections and face_summary rows as they were.
C29_UpdateKeepsProcessingState ==
    [][ last'.op = "add_photo" =>
          \A r \in PhotosByPath(db, last'.path) :
             /\ \E u \in PhotosByPath(db', last'.path) :
                   /\ u.id = r.id
                   /\ u.created_at = r.created_at
                   /\ u.processed_at = r.processed_at
             /\ [ChildRows(db', r.id) EXCEPT !.exif_data = <<>>]
                  = [ChildRows(db, r.id) EXCEPT !.exif_data = <<>>] ]_vars

\* add_photo has returned on the path of a photo that was created before
\* the call and has been processed.
C29_Witness ==
    /\ last.op = "add_photo" /\ ~last.raised
    /\ \E r \in PhotosByPath(db, last.path) :
         /\ r.id = last.value
         /\ r.created_at + 1 < clock
         /\ r.processed_at # NullTime
         /\ Rows(db.object_detections, r.id) # <<>>

-----------------------------------------------------------------------------
(* The gallery after the folder was loaded                                 *)

\* C30: after load_known_faces has returned, every entry of the gallery in
\* memory is the name and the encoding of a row of the known_faces table,
\* also when add_known_face failed for some of the faces.
C30_GalleryIsPersisted ==
    last.op = "load_known_faces" =>
        GalleryEntries(matcher) \subseteq TableEntries(known)

====
